---- MODULE Spec2Model ----
(***************************************************************************)
(* A model of github.com/jhump/chords: the note/interval algebra           *)
(* (notes.go), the chord validator, canonicalizer, speller and renderer    *)
(* (chord.go), and the chord lexer and table-driven parser                 *)
(* (chordparse.y, chordparse.y.go).                                        *)
(*                                                                         *)
(* Go values are modelled as follows.  A NoteName is its byte value        *)
(* ('A' = 65 .. 'G' = 71, 0 = the zero value).  An Accidental is its int8  *)
(* value.  A Note is a record [N, Acc]; an Interval a record [Val, Offset];*)
(* a ChordTone a record [Val, Acc]; a slice is a sequence.  A rune is its  *)
(* code point and a string the sequence of its runes.  A run-time panic    *)
(* (index out of range on a nil slice or a negative index) is the value    *)
(* PanicNote / PanicInterval, and propagates to the caller.                *)
(***************************************************************************)
EXTENDS Integers, Sequences, FiniteSets, TLC

VARIABLES
  pc,        \* the last operation performed
  note,      \* receiver of Transpose / IntervalTo
  interval,  \* argument of Transpose
  other,     \* argument of IntervalTo
  noteOut,   \* note returned by Transpose
  intvOut,   \* interval returned by IntervalTo
  num,       \* number returned by Cardinal / NumHalfSteps
  form,      \* the parts the text was written from, when it is of a given form
  input,     \* text handed to ParseChord
  res,       \* *Chord returned by ParseChord: <<>> is nil
  err,       \* error returned by ParseChord / Validate: "" is nil
  given,     \* the chord as constructed or parsed
  ch,        \* the Chord object
  chB,       \* a second Chord object, compared with the first
  reparsed,  \* what ParseChord returned for the rendered text
  spelled,   \* notes returned by Spell
  rendered,  \* text returned by String
  lexPos,    \* pos of a chordLex on input
  lexTok     \* what its Lex returned last: -1 before the first call

vars == <<pc, note, interval, other, noteOut, intvOut, num, form, input, res, err,
          given, ch, chB, reparsed, spelled, rendered, lexPos, lexTok>>

-----------------------------------------------------------------------------
(* notes.go: note names, accidentals, notes, intervals                     *)

A == 65
B == 66
C == 67
D == 68
E == 69
F == 70
G == 71

NoteNames == {A, B, C, D, E, F, G}

Natural == 0
Flat == -1
Sharp == 1
DblFlat == -2
DblSharp == 2

Accidentals == {DblFlat, Flat, Natural, Sharp, DblSharp}

\* conversion of an integer to int8 (two's complement wrap-around)
Int8(x) == ((x + 128) % 256) - 128

\* conversion of an integer to byte
Byte(x) == x % 256

\* Go's % operator: the remainder has the sign of the dividend
GoRem(x, n) == IF x >= 0 THEN x % n ELSE -((-x) % n)

posMod(x, n) == GoRem(GoRem(x, n) + n, n)

noteCardinals == <<0, 2, 3, 5, 7, 8, 10>>

NoteNameCardinal(n) == noteCardinals[(n - A) + 1]

NoteNameIsValid(n) == n >= A /\ n <= G

AccidentalOffset(a) == a

AccidentalIsValid(a) == a >= DblFlat /\ a <= DblSharp

MkNote(n, a) == [N |-> n, Acc |-> a]

ZeroNote == MkNote(0, Natural)

PanicNote == MkNote(-1, Natural)

Notes == {MkNote(n, a) : n \in NoteNames, a \in Accidentals}

NoteIsValid(n) == NoteNameIsValid(n.N) /\ AccidentalIsValid(n.Acc)

\* Cardinal without the wrap into 0..11
NoteCardinalNoWrap(n) == Int8(NoteNameCardinal(n.N) + AccidentalOffset(n.Acc))

\* Note.Cardinal
NoteCardinal(n) == posMod(Int8(NoteNameCardinal(n.N) + AccidentalOffset(n.Acc)), 12)

MkInterval(v, o) == [Val |-> v, Offset |-> o]

PanicInterval == MkInterval(-1, 0)

Intervals == {MkInterval(v, o) : v \in 1..7, o \in -2..2}

IntervalIsValid(i) == i.Val >= 1 /\ i.Val <= 7 /\ i.Offset >= -2 /\ i.Offset <= 2

stepsByInterval == <<0, 2, 4, 5, 7, 9, 11>>

\* stepsByInterval[i.Val-1] panics when the index is outside 0..6
NumHalfStepsPanics(i) == i.Val - 1 < 0 \/ i.Val - 1 >= Len(stepsByInterval)

\* NumHalfSteps without the wrap into 0..11
NumHalfStepsNoWrap(i) == Int8(stepsByInterval[(i.Val - 1) + 1] + i.Offset)

\* Interval.NumHalfSteps
NumHalfSteps(i) == posMod(Int8(stepsByInterval[(i.Val - 1) + 1] + i.Offset), 12)

\* the runes of the strings that ParseNote is applied to
RuneCode ==
  "A" :> 65 @@ "B" :> 66 @@ "C" :> 67 @@ "D" :> 68 @@ "E" :> 69 @@ "F" :> 70 @@
  "G" :> 71 @@ "#" :> 35 @@ "b" :> 98 @@ "x" :> 120 @@ "n" :> 110

parseAccidental(s) ==
  CASE s = <<"n">> -> Natural
    [] s = <<"#">> -> Sharp
    [] s = <<"b">> -> Flat
    [] s = <<"x">> -> DblSharp
    [] s = <<"b", "b">> -> DblFlat

MustParseNote(s) ==
  IF Len(s) = 1 THEN MkNote(RuneCode[s[1]], Natural)
  ELSE MkNote(RuneCode[s[1]], parseAccidental(Tail(s)))

offsetsByNote_strings ==
  <<"A","x">> :> <<<<"A","b","b">>, <<"A","b">>, <<"A">>, <<"A","#">>, <<"A","x">>, <<"B","#">>, <<"B","x">>, <<"C","x">>, <<"D","#">>>> @@
  <<"A","#">> :> <<<<"G","b">>, <<"A","b","b">>, <<"A","b">>, <<"A">>, <<"A","#">>, <<"A","x">>, <<"B","#">>, <<"B","x">>, <<"C","x">>>> @@
  <<"A">> :> <<<<"G","b","b">>, <<"G","b">>, <<"A","b","b">>, <<"A","b">>, <<"A">>, <<"A","#">>, <<"A","x">>, <<"B","#">>, <<"B","x">>>> @@
  <<"A","b">> :> <<<<"F","b">>, <<"G","b","b">>, <<"G","b">>, <<"A","b","b">>, <<"A","b">>, <<"A">>, <<"A","#">>, <<"A","x">>, <<"B","#">>>> @@
  <<"A","b","b">> :> <<<<"F","b","b">>, <<"F","b">>, <<"G","b","b">>, <<"G","b">>, <<"A","b","b">>, <<"A","b">>, <<"A">>, <<"A","#">>, <<"A","x">>>> @@
  <<"B","x">> :> <<<<"B","b","b">>, <<"B","b">>, <<"B">>, <<"B","#">>, <<"B","x">>, <<"C","x">>, <<"D","#">>, <<"D","x">>, <<"E","#">>>> @@
  <<"B","#">> :> <<<<"A","b">>, <<"B","b","b">>, <<"B","b">>, <<"B">>, <<"B","#">>, <<"B","x">>, <<"C","x">>, <<"D","#">>, <<"D","x">>>> @@
  <<"B">> :> <<<<"A","b","b">>, <<"A","b">>, <<"B","b","b">>, <<"B","b">>, <<"B">>, <<"B","#">>, <<"B","x">>, <<"C","x">>, <<"D","#">>>> @@
  <<"B","b">> :> <<<<"G","b">>, <<"A","b","b">>, <<"A","b">>, <<"B","b","b">>, <<"B","b">>, <<"B">>, <<"B","#">>, <<"B","x">>, <<"C","x">>>> @@
  <<"B","b","b">> :> <<<<"G","b","b">>, <<"G","b">>, <<"A","b","b">>, <<"A","b">>, <<"B","b","b">>, <<"B","b">>, <<"B">>, <<"B","#">>, <<"B","x">>>> @@
  <<"C","x">> :> <<<<"C","b","b">>, <<"C","b">>, <<"C">>, <<"C","#">>, <<"C","x">>, <<"D","#">>, <<"D","x">>, <<"E","#">>, <<"E","x">>>> @@
  <<"C","#">> :> <<<<"B","b","b">>, <<"C","b","b">>, <<"C","b">>, <<"C">>, <<"C","#">>, <<"C","x">>, <<"D","#">>, <<"D","x">>, <<"E","#">>>> @@
  <<"C">> :> <<<<"A","b">>, <<"B","b","b">>, <<"C","b","b">>, <<"C","b">>, <<"C">>, <<"C","#">>, <<"C","x">>, <<"D","#">>, <<"D","x">>>> @@
  <<"C","b">> :> <<<<"A","b","b">>, <<"A","b">>, <<"B","b","b">>, <<"C","b","b">>, <<"C","b">>, <<"C">>, <<"C","#">>, <<"C","x">>, <<"D","#">>>> @@
  <<"C","b","b">> :> <<<<"G","b">>, <<"A","b","b">>, <<"A","b">>, <<"B","b","b">>, <<"C","b","b">>, <<"C","b">>, <<"C">>, <<"C","#">>, <<"C","x">>>> @@
  <<"D","x">> :> <<<<"D","b","b">>, <<"D","b">>, <<"D">>, <<"D","#">>, <<"D","x">>, <<"E","#">>, <<"E","x">>, <<"F","x">>, <<"G","#">>>> @@
  <<"D","#">> :> <<<<"C","b">>, <<"D","b","b">>, <<"D","b">>, <<"D">>, <<"D","#">>, <<"D","x">>, <<"E","#">>, <<"E","x">>, <<"F","x">>>> @@
  <<"D">> :> <<<<"C","b","b">>, <<"C","b">>, <<"D","b","b">>, <<"D","b">>, <<"D">>, <<"D","#">>, <<"D","x">>, <<"E","#">>, <<"E","x">>>> @@
  <<"D","b">> :> <<<<"B","b","b">>, <<"C","b","b">>, <<"C","b">>, <<"D","b","b">>, <<"D","b">>, <<"D">>, <<"D","#">>, <<"D","x">>, <<"E","#">>>> @@
  <<"D","b","b">> :> <<<<"A","b">>, <<"B","b","b">>, <<"C","b","b">>, <<"C","b">>, <<"D","b","b">>, <<"D","b">>, <<"D">>, <<"D","#">>, <<"D","x">>>> @@
  <<"E","x">> :> <<<<"E","b","b">>, <<"E","b">>, <<"E">>, <<"E","#">>, <<"E","x">>, <<"F","x">>, <<"G","#">>, <<"G","x">>, <<"A","#">>>> @@
  <<"E","#">> :> <<<<"D","b">>, <<"E","b","b">>, <<"E","b">>, <<"E">>, <<"E","#">>, <<"E","x">>, <<"F","x">>, <<"G","#">>, <<"G","x">>>> @@
  <<"E">> :> <<<<"D","b","b">>, <<"D","b">>, <<"E","b","b">>, <<"E","b">>, <<"E">>, <<"E","#">>, <<"E","x">>, <<"F","x">>, <<"G","#">>>> @@
  <<"E","b">> :> <<<<"C","b">>, <<"D","b","b">>, <<"D","b">>, <<"E","b","b">>, <<"E","b">>, <<"E">>, <<"E","#">>, <<"E","x">>, <<"F","x">>>> @@
  <<"E","b","b">> :> <<<<"C","b","b">>, <<"C","b">>, <<"D","b","b">>, <<"D","b">>, <<"E","b","b">>, <<"E","b">>, <<"E">>, <<"E","#">>, <<"E","x">>>> @@
  <<"F","x">> :> <<<<"F","b","b">>, <<"F","b">>, <<"F">>, <<"F","#">>, <<"F","x">>, <<"G","#">>, <<"G","x">>, <<"A","#">>, <<"A","x">>>> @@
  <<"F","#">> :> <<<<"E","b","b">>, <<"F","b","b">>, <<"F","b">>, <<"F">>, <<"F","#">>, <<"F","x">>, <<"G","#">>, <<"G","x">>, <<"A","#">>>> @@
  <<"F">> :> <<<<"D","b">>, <<"E","b","b">>, <<"F","b","b">>, <<"F","b">>, <<"F">>, <<"F","#">>, <<"F","x">>, <<"G","#">>, <<"G","x">>>> @@
  <<"F","b">> :> <<<<"D","b","b">>, <<"D","b">>, <<"E","b","b">>, <<"F","b","b">>, <<"F","b">>, <<"F">>, <<"F","#">>, <<"F","x">>, <<"G","#">>>> @@
  <<"F","b","b">> :> <<<<"C","b">>, <<"D","b","b">>, <<"D","b">>, <<"E","b","b">>, <<"F","b","b">>, <<"F","b">>, <<"F">>, <<"F","#">>, <<"F","x">>>> @@
  <<"G","x">> :> <<<<"G","b","b">>, <<"G","b">>, <<"G">>, <<"G","#">>, <<"G","x">>, <<"A","#">>, <<"A","x">>, <<"B","#">>, <<"B","x">>>> @@
  <<"G","#">> :> <<<<"F","b">>, <<"G","b","b">>, <<"G","b">>, <<"G">>, <<"G","#">>, <<"G","x">>, <<"A","#">>, <<"A","x">>, <<"B","#">>>> @@
  <<"G">> :> <<<<"F","b","b">>, <<"F","b">>, <<"G","b","b">>, <<"G","b">>, <<"G">>, <<"G","#">>, <<"G","x">>, <<"A","#">>, <<"A","x">>>> @@
  <<"G","b">> :> <<<<"E","b","b">>, <<"F","b","b">>, <<"F","b">>, <<"G","b","b">>, <<"G","b">>, <<"G">>, <<"G","#">>, <<"G","x">>, <<"A","#">>>> @@
  <<"G","b","b">> :> <<<<"D","b">>, <<"E","b","b">>, <<"F","b","b">>, <<"F","b">>, <<"G","b","b">>, <<"G","b">>, <<"G">>, <<"G","#">>, <<"G","x">>>>

majorScales_strings ==
  <<"A">> :> <<<<"A">>, <<"B">>, <<"C","#">>, <<"D">>, <<"E">>, <<"F","#">>, <<"G","#">>>> @@
  <<"B">> :> <<<<"B">>, <<"C","#">>, <<"D","#">>, <<"E">>, <<"F","#">>, <<"G","#">>, <<"A","#">>>> @@
  <<"C">> :> <<<<"C">>, <<"D">>, <<"E">>, <<"F">>, <<"G">>, <<"A">>, <<"B">>>> @@
  <<"D">> :> <<<<"D">>, <<"E">>, <<"F","#">>, <<"G">>, <<"A">>, <<"B">>, <<"C","#">>>> @@
  <<"E">> :> <<<<"E">>, <<"F","#">>, <<"G","#">>, <<"A">>, <<"B">>, <<"C","#">>, <<"D","#">>>> @@
  <<"F">> :> <<<<"F">>, <<"G">>, <<"A">>, <<"B","b">>, <<"C">>, <<"D">>, <<"E">>>> @@
  <<"G">> :> <<<<"G">>, <<"A">>, <<"B">>, <<"C">>, <<"D">>, <<"E">>, <<"F","#">>>>

offsetsByNote == [n \in {MustParseNote(k) : k \in DOMAIN offsetsByNote_strings} |->
  LET k == CHOOSE k \in DOMAIN offsetsByNote_strings : MustParseNote(k) = n
      vs == offsetsByNote_strings[k]
  IN [i \in 1..Len(vs) |-> MustParseNote(vs[i])]]

\* the accidentals visited by "for acc := Natural; acc < DblSharp; acc++"
majorScaleAccidentals == {acc \in Accidentals : acc >= Natural /\ acc < DblSharp}

majorScales ==
  [n \in {MkNote(MustParseNote(k).N, acc) :
            k \in DOMAIN majorScales_strings, acc \in majorScaleAccidentals} |->
    LET k  == CHOOSE k \in DOMAIN majorScales_strings : MustParseNote(k).N = n.N
        vs == majorScales_strings[k]
        ns == [i \in 1..Len(vs) |-> MustParseNote(vs[i])]
    IN IF AccidentalOffset(n.Acc) = 0 THEN ns
       ELSE [i \in 1..Len(ns) |-> offsetsByNote[ns[i]][(AccidentalOffset(n.Acc) + 4) + 1]]]

\* the sanity check of init(): every entry of the offset table has the
\* cardinal of its key moved by the entry's offset
offsetTableIsCorrect ==
  \A n \in DOMAIN offsetsByNote : \A i \in 1..Len(offsetsByNote[n]) :
    NoteCardinal(offsetsByNote[n][i]) = posMod(Int8(NoteCardinal(n) + (i - 1) - 4), 12)

\* the loop of Transpose that moves np by o half steps, 4 at a time
RECURSIVE TransposeLoop(_, _)
TransposeLoop(np, o) ==
  IF o = 0 THEN np
  ELSE IF o >= -4 /\ o <= 4 THEN offsetsByNote[np][(o + 4) + 1]
  ELSE IF o < 0 THEN TransposeLoop(offsetsByNote[np][0 + 1], Int8(o + 4))
  ELSE TransposeLoop(offsetsByNote[np][4 + 1], Int8(o - 4))

\* majorScales[n] is a nil slice for a note that is no key of the map, and
\* indexing it panics
Transpose(n, intv) ==
  IF n \notin DOMAIN majorScales THEN PanicNote
  ELSE TransposeLoop(majorScales[n][posMod(Int8(intv.Val - 1), 7) + 1], intv.Offset)

MaxLoop == 8

\* "for offs < -2 { intv.Val--; ... }": fuel runs out only if the loop
\* comes back to a degree it has already tried, that is, never ends
RECURSIVE IntervalToDown(_, _, _)
IntervalToDown(val, dHalfSteps, fuel) ==
  LET offs == dHalfSteps - NumHalfSteps(MkInterval(val, 0)) IN
  IF ~(offs < -2) THEN val
  ELSE IF fuel = 0 THEN -1
  ELSE IntervalToDown(IF val - 1 < 1 THEN val - 1 + 7 ELSE val - 1, dHalfSteps, fuel - 1)

RECURSIVE IntervalToUp(_, _, _)
IntervalToUp(val, dHalfSteps, fuel) ==
  LET offs == dHalfSteps - NumHalfSteps(MkInterval(val, 0)) IN
  IF ~(offs > 2) THEN val
  ELSE IF fuel = 0 THEN -1
  ELSE IntervalToUp(IF val + 1 > 7 THEN val + 1 - 7 ELSE val + 1, dHalfSteps, fuel - 1)

\* the degree IntervalTo starts from
IntervalToVal(n, o) == posMod(Int8(Int8(Byte(o.N - 97)) - Int8(Byte(n.N - 97))), 8)

IntervalTo(n, o) ==
  LET val        == IntervalToVal(n, o)
      dHalfSteps == posMod(Int8(NoteCardinal(o) - NoteCardinal(n)), 12)
  IN IF NumHalfStepsPanics(MkInterval(val, 0)) THEN PanicInterval
     ELSE LET down == IntervalToDown(val, dHalfSteps, MaxLoop)
              up   == IF down = -1 THEN -1 ELSE IntervalToUp(down, dHalfSteps, MaxLoop)
          IN IF up = -1 THEN PanicInterval
             ELSE MkInterval(up, dHalfSteps - NumHalfSteps(MkInterval(up, 0)))

TransposeNote(root, intervals) ==
  [i \in 1..Len(intervals) |-> Transpose(root, intervals[i])]

MeasureIntervals(root, notes) ==
  [i \in 1..Len(notes) |-> IntervalTo(root, notes[i])]

\* lines 55-73 of Negate: the interval of dist half steps that starts from
\* degree val, and the root transposed by it
NegateBy(root, val, dist) ==
  LET down == IntervalToDown(val, dist, MaxLoop)
      up   == IF down = -1 THEN -1 ELSE IntervalToUp(down, dist, MaxLoop)
  IN IF up = -1 THEN PanicNote
     ELSE Transpose(root, MkInterval(up, dist - NumHalfSteps(MkInterval(up, 0))))

\* the body of the loop of Negate for one note n; intv is root.IntervalTo(n)
NegateInterval(root, n, intv) ==
  IF intv = PanicInterval THEN PanicNote
  ELSE IF Int8(12 - NumHalfSteps(intv)) = 12 THEN n
  ELSE IF NumHalfStepsPanics(MkInterval(Int8(8 - intv.Val), 0)) THEN PanicNote
  ELSE NegateBy(root, Int8(8 - intv.Val), Int8(12 - NumHalfSteps(intv)))

NegateNote(root, n) == NegateInterval(root, n, IntervalTo(root, n))

\* what a function returning notes gives when a call it makes panics
PanicNotes == <<PanicNote>>

NegateAll(root, notes) == [i \in 1..Len(notes) |-> NegateNote(root, notes[i])]

\* Negate: the notes it returns
Negate(root, notes) ==
  IF \E i \in 1..Len(notes) : NegateNote(root, notes[i]) = PanicNote
  THEN PanicNotes
  ELSE NegateAll(root, notes)

-----------------------------------------------------------------------------
(* chord.go: chords, chord tones, triad types                              *)

Maj3 == 0
Aug3 == 1
Min3 == 2
Dim3 == 3
HDim == 4
FDim == 5
Sus == 6

TriadTypes == {Maj3, Aug3, Min3, Dim3, HDim, FDim, Sus}

TriadIsValid(t) == t >= Maj3 /\ t <= Sus

MkTone(v, a) == [Val |-> v, Acc |-> a]

ToneIsValid(t) == t.Val >= 1 /\ t.Val <= 14 /\ AccidentalIsValid(t.Acc)

MkChord(root, triad, tones, bass, canonical) ==
  [Root |-> root, Triad |-> triad, ExtraTones |-> tones, Bass |-> bass,
   canonical |-> canonical]

ZeroChord == MkChord(ZeroNote, Maj3, <<>>, ZeroNote, FALSE)

fifthTone(t) ==
  IF t \in {HDim, Dim3, FDim} THEN MkTone(5, Flat)
  ELSE IF t = Aug3 THEN MkTone(5, Sharp)
  ELSE MkTone(5, Natural)

standardIntervals ==
  Maj3 :> <<0, 0, 0, 0, 0, 0, -1>> @@
  Sus  :> <<0, 0, 0, 0, 0, 0, -1>> @@
  Min3 :> <<0, 0, -1, 0, 0, 0, -1>> @@
  Aug3 :> <<0, 0, 0, 0, 0, 0, -1>> @@
  Dim3 :> <<0, 0, -1, 0, 0, 0, -2>> @@
  HDim :> <<0, 0, -1, 0, 0, 0, -1>> @@
  FDim :> <<0, 0, -1, 0, 0, 0, -2>>

removeTone(tns, toRemove) == SelectSeq(tns, LAMBDA tn : tn # toRemove)

containsTone(tns, search) == \E i \in 1..Len(tns) : tns[i] = search

\* the loop of Validate without the test for conflicting accidentals
RECURSIVE ValidateTonesNoConflict(_, _, _)
ValidateTonesNoConflict(tones, i, t) ==
  IF i > Len(tones) THEN [err |-> "", t |-> t]
  ELSE LET e == tones[i]
           v == IF e.Val > 7 THEN e.Val - 7 ELSE e.Val
       IN IF ~ToneIsValid(e) THEN [err |-> "tone is invalid", t |-> t]
          ELSE IF v < 2 \/ v = 3 \/ v > 7
            THEN [err |-> "tone is not a valid chord extra", t |-> t]
          ELSE IF v \notin DOMAIN t
            THEN ValidateTonesNoConflict(tones, i + 1, (v :> e.Acc) @@ t)
          ELSE ValidateTonesNoConflict(tones, i + 1, t)

\* the loop of Validate over ExtraTones; t is the map from degree to the
\* first accidental seen for it.  The result is the error ("" for none)
\* and the map.
RECURSIVE ValidateTones(_, _, _)
ValidateTones(tones, i, t) ==
  IF i > Len(tones) THEN [err |-> "", t |-> t]
  ELSE LET e == tones[i]
           v == IF e.Val > 7 THEN e.Val - 7 ELSE e.Val
       IN IF ~ToneIsValid(e) THEN [err |-> "tone is invalid", t |-> t]
          ELSE IF v < 2 \/ v = 3 \/ v > 7
            THEN [err |-> "tone is not a valid chord extra", t |-> t]
          ELSE IF v \in DOMAIN t /\ t[v] # e.Acc
            THEN [err |-> "tone has conflicting accidentals", t |-> t]
          ELSE IF v \notin DOMAIN t
            THEN ValidateTones(tones, i + 1, (v :> e.Acc) @@ t)
          ELSE ValidateTones(tones, i + 1, t)

\* Validate without the checks of the tones against the triad
ValidateTonesOnly(c) ==
  IF ~NoteIsValid(c.Root) THEN "chord root is invalid"
  ELSE IF c.Bass.N # 0 /\ ~NoteIsValid(c.Bass) THEN "chord bass note is invalid"
  ELSE IF ~TriadIsValid(c.Triad) THEN "chord triad type is invalid"
  ELSE ValidateTones(c.ExtraTones, 1, <<>>).err

\* Validate: the error it returns, "" for nil
Validate(c) ==
  IF ~NoteIsValid(c.Root) THEN "chord root is invalid"
  ELSE IF c.Bass.N # 0 /\ ~NoteIsValid(c.Bass) THEN "chord bass note is invalid"
  ELSE IF ~TriadIsValid(c.Triad) THEN "chord triad type is invalid"
  ELSE LET r == ValidateTones(c.ExtraTones, 1, <<>>)
           t == r.t
       IN IF r.err # "" THEN r.err
          ELSE IF (c.Triad = FDim \/ c.Triad = Dim3) /\ 7 \in DOMAIN t /\ t[7] # Natural
            THEN "diminished chord should not have modified 7th"
          ELSE IF (c.Triad = FDim \/ c.Triad = HDim \/ c.Triad = Dim3)
            THEN (IF 5 \in DOMAIN t /\ t[5] # Flat
                  THEN "diminished chord should not have non-flat 5th" ELSE "")
          ELSE IF c.Triad = Aug3
            THEN (IF 5 \in DOMAIN t /\ t[5] # Sharp
                  THEN "augmented chord should not have non-sharp 5th" ELSE "")
          ELSE IF c.Triad = Sus
            THEN (IF 2 \notin DOMAIN t /\ 4 \notin DOMAIN t
                  THEN "suspended chord must have 2nd or 4th as suspension note" ELSE "")
          ELSE ""

-----------------------------------------------------------------------------
(* Chord.Canonicalize.  The local state of the function is the record      *)
(* [Triad, t, hasSeventh, hasNaturalSeventh, impliedSeventh], where t is    *)
(* the map from tone value to the slice of tones (an absent key is the     *)
(* empty slice).  Each pass is one operator on that record.                *)

ToneKeys == 1..14

SetT(s, k, v) == [s EXCEPT !.t = [@ EXCEPT ![k] = v]]

RemoveT(s, k, tone) == SetT(s, k, removeTone(s.t[k], tone))

CountSeq(seq, Test(_)) == Len(SelectSeq(seq, Test))

\* lines 228-257: build t from ExtraTones, dropping the tones enharmonic to
\* the root, and count the stated and implied sevenths
CanonCollect(c) ==
  LET Skipped(e) == \/ (e.Val = 7 /\ e.Acc = DblSharp)
                    \/ (e.Val = 2 /\ e.Acc = DblFlat)
                    \/ (e.Val = 9 /\ e.Acc = DblFlat)
      kept == SelectSeq(c.ExtraTones, LAMBDA e : ~Skipped(e))
  IN [Triad |-> c.Triad,
      t |-> [k \in ToneKeys |-> SelectSeq(kept, LAMBDA e : e.Val = k)],
      hasSeventh |-> \E i \in 1..Len(kept) : kept[i].Val = 7,
      hasNaturalSeventh |->
        \E i \in 1..Len(kept) : kept[i].Val = 7 /\ kept[i].Acc = Natural,
      impliedSeventh |->
        (IF c.Triad = FDim \/ c.Triad = HDim THEN 1 ELSE 0)
        + CountSeq(c.ExtraTones, LAMBDA e : e.Val = 9 /\ e.Acc = DblFlat)
        + CountSeq(kept, LAMBDA e : e.Val > 7)]

\* lines 259-267: remove any redundant 5th tones
CanonRedundantFifth(s) ==
  IF s.Triad \in {Maj3, Min3, Sus} THEN RemoveT(s, 5, MkTone(5, Natural))
  ELSE IF s.Triad = Aug3 THEN RemoveT(s, 5, MkTone(5, Sharp))
  ELSE IF s.Triad \in {Dim3, HDim, FDim} THEN RemoveT(s, 5, MkTone(5, Flat))
  ELSE s

\* lines 269-288: convert minor chord w/ b5 to some kind of diminished
CanonMinorFlatFifth(s) ==
  IF s.Triad = Min3 /\ (\E i \in 1..Len(s.t[5]) : s.t[5][i].Acc = Flat)
  THEN [RemoveT(s, 5, MkTone(5, Flat)) EXCEPT
          !.Triad = IF s.impliedSeventh > 0 \/ s.hasSeventh THEN HDim ELSE Dim3]
  ELSE s

\* lines 289-302: convert major chord w/ #5 to augmented
CanonMajorSharpFifth(s) ==
  IF s.Triad = Maj3 /\ (\E i \in 1..Len(s.t[5]) : s.t[5][i].Acc = Sharp)
  THEN [RemoveT(s, 5, MkTone(5, Sharp)) EXCEPT !.Triad = Aug3]
  ELSE s

\* lines 304-308: canonicalize "dim7" -> "o"
CanonDimSeventh(s) ==
  IF s.Triad = Dim3 /\ (s.hasNaturalSeventh \/ (s.impliedSeventh > 0 /\ ~s.hasSeventh))
  THEN [s EXCEPT !.Triad = FDim, !.impliedSeventh = @ + 1]
  ELSE s

\* a half diminished chord left as it is, whatever its 7th
CanonHalfDimKept(s) == s

\* lines 310-324: half diminished w/ flat 7th is the same as fully diminished
CanonHalfDimFlatSeventh(s) ==
  IF s.Triad = HDim /\ s.hasSeventh
     /\ (\A i \in 1..Len(s.t[7]) : s.t[7][i].Acc = Flat)
  THEN [SetT(s, 7, [i \in 1..Len(s.t[7]) |-> [s.t[7][i] EXCEPT !.Acc = Natural]])
          EXCEPT !.Triad = FDim]
  ELSE s

\* an implied 7th is left implied
CanonSeventhLeftImplied(s) == s

\* lines 326-330: if "7" is just implied, make it explicit
CanonImpliedSeventh(s) ==
  IF s.impliedSeventh > 0 /\ ~s.hasSeventh
  THEN [SetT(s, 7, Append(s.t[7], MkTone(7, Natural))) EXCEPT !.hasSeventh = TRUE]
  ELSE s

\* lines 335-350: tones enharmonic to the triad's third
CanonThirdEquivalents(s) ==
  IF s.Triad \in {Maj3, Aug3}
  THEN RemoveT(RemoveT(RemoveT(RemoveT(s, 4, MkTone(4, Flat)), 11, MkTone(11, Flat)),
                       2, MkTone(2, DblSharp)), 9, MkTone(9, DblSharp))
  ELSE IF s.Triad \in {Min3, Dim3, HDim, FDim}
  THEN RemoveT(RemoveT(RemoveT(RemoveT(s, 2, MkTone(2, Sharp)), 9, MkTone(9, Sharp)),
                       4, MkTone(4, DblFlat)), 11, MkTone(11, DblFlat))
  ELSE s

\* the conversion of a sus chord with the 2nds checked before the 4ths
CanonSusSecondsFirst(s) ==
  IF s.Triad # Sus THEN s
  ELSE
    LET count2 == Len(s.t[2]) + Len(s.t[9])
        s1 == RemoveT(RemoveT(s, 2, MkTone(2, Sharp)), 9, MkTone(9, Sharp))
        s2 == RemoveT(RemoveT(s1, 2, MkTone(2, DblSharp)), 9, MkTone(9, DblSharp))
        count4 == Len(s2.t[4]) + Len(s2.t[11])
        s3 == RemoveT(RemoveT(s2, 4, MkTone(4, Flat)), 11, MkTone(11, Flat))
        s4 == RemoveT(RemoveT(s3, 4, MkTone(4, DblFlat)), 11, MkTone(11, DblFlat))
    IN IF count2 > Len(s1.t[2]) + Len(s1.t[9]) THEN [s1 EXCEPT !.Triad = Min3]
       ELSE IF count2 > Len(s2.t[2]) + Len(s2.t[9]) THEN [s2 EXCEPT !.Triad = Maj3]
       ELSE IF count4 > Len(s3.t[4]) + Len(s3.t[11]) THEN [s3 EXCEPT !.Triad = Maj3]
       ELSE IF count4 > Len(s4.t[4]) + Len(s4.t[11]) THEN [s4 EXCEPT !.Triad = Min3]
       ELSE s4

\* lines 352-388: sus chords with a sharp second or flatted fourth become
\* minor or major
CanonSusToThird(s) ==
  IF s.Triad # Sus THEN s
  ELSE
    LET count4 == Len(s.t[4]) + Len(s.t[11])
        s1 == RemoveT(RemoveT(s, 4, MkTone(4, Flat)), 11, MkTone(11, Flat))
        s2 == RemoveT(RemoveT(s1, 4, MkTone(4, DblFlat)), 11, MkTone(11, DblFlat))
        count2 == Len(s2.t[2]) + Len(s2.t[9])
        s3 == RemoveT(RemoveT(s2, 2, MkTone(2, Sharp)), 9, MkTone(9, Sharp))
        s4 == RemoveT(RemoveT(s3, 2, MkTone(2, DblSharp)), 9, MkTone(9, DblSharp))
    IN IF count4 > Len(s1.t[4]) + Len(s1.t[11]) THEN [s1 EXCEPT !.Triad = Maj3]
       ELSE IF count4 > Len(s2.t[4]) + Len(s2.t[11]) THEN [s2 EXCEPT !.Triad = Min3]
       ELSE IF count2 > Len(s3.t[2]) + Len(s3.t[9]) THEN [s3 EXCEPT !.Triad = Min3]
       ELSE IF count2 > Len(s4.t[2]) + Len(s4.t[9]) THEN [s4 EXCEPT !.Triad = Maj3]
       ELSE s4

\* lines 390-395: fully-diminished chords don't need to specify 6th
CanonFullDimSixth(s) ==
  IF s.Triad = FDim
  THEN RemoveT(RemoveT(s, 6, MkTone(6, Natural)), 13, MkTone(13, Natural))
  ELSE s

\* lines 396-401: augmented chords don't need to specify flat 6th
CanonAugFlatSixth(s) ==
  IF s.Triad = Aug3 \/ containsTone(s.t[5], MkTone(5, Sharp))
  THEN RemoveT(RemoveT(s, 6, MkTone(6, Flat)), 13, MkTone(13, Flat))
  ELSE s

\* lines 402-407: (non-sus) diminished chords don't need to specify sharp 4th
CanonDimSharpFourth(s) ==
  IF s.Triad = Dim3 \/ s.Triad = HDim \/ s.Triad = FDim
     \/ (s.Triad # Sus /\ containsTone(s.t[5], MkTone(5, Flat)))
  THEN RemoveT(RemoveT(s, 4, MkTone(4, Sharp)), 11, MkTone(11, Sharp))
  ELSE s

\* lines 408-424: sus chords w/ flat 5th
CanonSusFlatFifth(s) ==
  IF s.Triad = Sus /\ containsTone(s.t[5], MkTone(5, Flat))
  THEN LET r == RemoveT(RemoveT(s, 4, MkTone(4, Sharp)), 11, MkTone(11, Sharp))
           count == Len(s.t[4]) + Len(s.t[11])
       IN IF Len(s.t[2]) + Len(s.t[9]) > 0 THEN r
          ELSE IF Len(r.t[4]) + Len(r.t[11]) = 0 /\ count > 0
            THEN SetT(r, 4, <<MkTone(4, Sharp)>>)
          ELSE r
  ELSE s

\* lines 425-430: chords with perfect fifth don't need a double-sharp fourth
CanonPerfectFifth(s) ==
  IF (s.Triad = Min3 \/ s.Triad = Maj3)
     /\ (Len(s.t[5]) = 0 \/ containsTone(s.t[5], MkTone(5, Natural)))
  THEN RemoveT(RemoveT(s, 4, MkTone(4, DblSharp)), 11, MkTone(11, DblSharp))
  ELSE s

ShiftVal(tns, d) == [i \in 1..Len(tns) |-> [tns[i] EXCEPT !.Val = @ + d]]

\* no tone is moved to another degree
CanonNoConsolidate(s) == s

\* lines 432-460: consolidate like tones (combine 2s and 9s; 4s and 11s; etc).
\* The loop ranges over the map while it writes to it; an entry it writes
\* is never one it moves (the targets 8..13 and 5, 7 are left alone), so
\* the result does not depend on the order of the iteration.
CanonConsolidate(s) ==
  LET Up(k)   == k < 7 /\ k # 5
      Down(k) == k = 12 \/ k = 14
  IN IF s.hasSeventh
     THEN [s EXCEPT !.t = [k \in ToneKeys |->
             IF Up(k) \/ Down(k) THEN <<>>
             ELSE IF k - 7 \in ToneKeys /\ Up(k - 7) THEN s.t[k] \o ShiftVal(s.t[k - 7], 7)
             ELSE IF k + 7 \in ToneKeys /\ Down(k + 7) THEN s.t[k] \o ShiftVal(s.t[k + 7], -7)
             ELSE s.t[k]]]
     ELSE [s EXCEPT !.t = [k \in ToneKeys |->
             IF k > 7 THEN <<>>
             ELSE s.t[k] \o ShiftVal(s.t[k + 7], -7)]]

\* the elements of a set of tones in ascending or descending order of
\* accidental: two of the orders in which Go may range over the map "tones"
RECURSIVE SetToSeq(_, _)
SetToSeq(S, ord) ==
  IF S = {} THEN <<>>
  ELSE LET x == CHOOSE x \in S : \A y \in S :
                  IF ord = "asc" THEN <<x.Acc, x.Val>> = <<y.Acc, y.Val>>
                                      \/ x.Acc < y.Acc \/ (x.Acc = y.Acc /\ x.Val < y.Val)
                  ELSE <<x.Acc, x.Val>> = <<y.Acc, y.Val>>
                       \/ x.Acc > y.Acc \/ (x.Acc = y.Acc /\ x.Val > y.Val)
       IN <<x>> \o SetToSeq(S \ {x}, ord)

\* no tone is removed
CanonKeepAll(s, ord) == s

\* lines 461-472: remove tones that have identical modifiers
CanonDedup(s, ord) ==
  [s EXCEPT !.t = [k \in ToneKeys |->
     SetToSeq({s.t[k][i] : i \in 1..Len(s.t[k])}, ord)]]

\* the index (from 1) of the tone the suspension demotion moves down: the
\* first natural tone, else the first tone of the least accidental
RECURSIVE DemoteIndex(_, _, _)
DemoteIndex(tns, i, toDemote) ==
  IF i > Len(tns) THEN toDemote
  ELSE IF tns[i].Acc = Natural THEN i
  ELSE IF toDemote < 1 \/ tns[i].Acc < tns[toDemote].Acc
    THEN DemoteIndex(tns, i + 1, i)
  ELSE DemoteIndex(tns, i + 1, toDemote)

RemoveAt(seq, i) == SubSeq(seq, 1, i - 1) \o SubSeq(seq, i + 1, Len(seq))

\* lines 474-513: move the suspended note down (9/11 -> 2/4)
CanonSusDemote(s) ==
  IF s.hasSeventh /\ s.Triad = Sus
  THEN IF Len(s.t[11]) > 0
       THEN LET d == DemoteIndex(s.t[11], 1, 0)
            IN SetT(SetT(s, 4, <<[s.t[11][d] EXCEPT !.Val = 4]>>), 11, RemoveAt(s.t[11], d))
       ELSE IF Len(s.t[9]) > 0
       THEN LET d == DemoteIndex(s.t[9], 1, 0)
            IN SetT(SetT(s, 2, <<[s.t[9][d] EXCEPT !.Val = 2]>>), 9, RemoveAt(s.t[9], d))
       ELSE s
  ELSE s

MaxInt8 == 127

toneOrder(b) == IF b = 5 THEN MaxInt8 ELSE b

\* Less of the sort.Interface of tones and of spellTones, on the order
\* numbers bi, bj of two tones x, y
lessByOrder(bi, x, bj, y) ==
  IF bi < bj THEN TRUE
  ELSE IF bi = bj THEN AccidentalOffset(x.Acc) < AccidentalOffset(y.Acc)
  ELSE FALSE

tonesLess(x, y) == lessByOrder(toneOrder(x.Val), x, toneOrder(y.Val), y)

\* sort.Sort on a slice of tones paired with their order numbers
\* [b, tone]: two elements neither of which is Less than the other are
\* equal tones, so an insertion sort gives the slice sort.Sort gives
RECURSIVE InsertSorted(_, _)
InsertSorted(seq, x) ==
  IF seq = <<>> THEN <<x>>
  ELSE IF lessByOrder(x.b, x.tone, Head(seq).b, Head(seq).tone) THEN <<x>> \o seq
  ELSE <<Head(seq)>> \o InsertSorted(Tail(seq), x)

RECURSIVE SortKeyed(_)
SortKeyed(seq) ==
  IF seq = <<>> THEN <<>>
  ELSE InsertSorted(SortKeyed(Tail(seq)), Head(seq))

\* sort.Sort(tones(tns))
SortTones(tns) ==
  LET sorted == SortKeyed([i \in 1..Len(tns) |-> [b |-> toneOrder(tns[i].Val), tone |-> tns[i]]])
  IN [i \in 1..Len(sorted) |-> sorted[i].tone]

RECURSIVE FlattenT(_, _)
FlattenT(t, k) ==
  IF k > 14 THEN <<>> ELSE t[k] \o FlattenT(t, k + 1)

\* the passes of Canonicalize in order, up to the map it ends with
CanonPasses(c, ord) ==
  LET s0  == CanonCollect(c)
      s1  == CanonRedundantFifth(s0)
      s2  == CanonMinorFlatFifth(s1)
      s3  == CanonMajorSharpFifth(s2)
      s4  == CanonDimSeventh(s3)
      s5  == CanonHalfDimFlatSeventh(s4)
      s6  == CanonImpliedSeventh(s5)
      s7  == CanonThirdEquivalents(s6)
      s8  == CanonSusToThird(s7)
      s9  == CanonFullDimSixth(s8)
      s10 == CanonAugFlatSixth(s9)
      s11 == CanonDimSharpFourth(s10)
      s12 == CanonSusFlatFifth(s11)
      s13 == CanonPerfectFifth(s12)
      s14 == CanonConsolidate(s13)
      s15 == CanonDedup(s14, ord)
  IN CanonSusDemote(s15)

\* the chord marked canonical with its tones in the order given
CanonicalizeAsGiven(c, ord) == [c EXCEPT !.canonical = TRUE]

\* Canonicalize with the maps ranged over in order ord
CanonicalizeBody(c, ord) ==
  LET s == CanonPasses(c, ord)
  IN [c EXCEPT !.Triad = s.Triad,
               !.ExtraTones = SortTones(FlattenT(s.t, 1)),
               !.canonical = TRUE]

\* a Canonicalize that does not look at the canonical flag
CanonicalizeUnguarded(c, ord) == CanonicalizeBody(c, ord)

Canonicalize(c, ord) == IF c.canonical THEN c ELSE CanonicalizeBody(c, ord)

-----------------------------------------------------------------------------
(* Chord.Spell                                                             *)

\* lines 596-611: the scan of ExtraTones for a fifth and a seventh, with
\* its two early exits
RECURSIVE SpellScan(_, _, _, _, _)
SpellScan(tns, triad, i, hasFifth, hasSeventh) ==
  IF i > Len(tns) THEN [hasFifth |-> hasFifth, hasSeventh |-> hasSeventh]
  ELSE LET f == hasFifth \/ tns[i].Val = 5
           v == hasSeventh \/ tns[i].Val = 7
       IN IF tns[i].Val = 5 /\ (hasSeventh \/ (triad # FDim /\ triad # HDim))
            THEN [hasFifth |-> TRUE, hasSeventh |-> hasSeventh]
          ELSE IF tns[i].Val = 7 /\ f
            THEN [hasFifth |-> f, hasSeventh |-> TRUE]
          ELSE SpellScan(tns, triad, i + 1, f, v)

\* the last tone of value v in tns, or the zero tone
LastToneOf(tns, v) ==
  LET idx == {i \in 1..Len(tns) : tns[i].Val = v}
  IN IF idx = {} THEN MkTone(0, Natural)
     ELSE tns[CHOOSE i \in idx : \A j \in idx : j <= i]

\* spellTonesFor: the suspension tone and whether a 7 is among the tones
spellTonesFor(tns, isSus) ==
  LET t2 == LastToneOf(tns, 2)
      t4 == LastToneOf(tns, 4)
      t9 == LastToneOf(tns, 9)
      t11 == LastToneOf(tns, 11)
      st == IF ~isSus THEN MkTone(0, Natural)
            ELSE IF t4.Val # 0 THEN t4
            ELSE IF t2.Val # 0 THEN t2
            ELSE IF t11.Val # 0 THEN t11
            ELSE IF t9.Val # 0 THEN t9
            ELSE MkTone(0, Natural)
  IN [t |-> tns, susTone |-> st,
      hasSeventh |-> \E i \in 1..Len(tns) : tns[i].Val = 7]

spellToneOrder(t, tn) ==
  IF tn.Val = 1 \/ tn.Val = 3 \/ tn.Val = 5 \/ tn.Val = 7 THEN tn.Val
  ELSE IF tn.Val < 5 /\ tn = t.susTone THEN tn.Val
  ELSE IF tn.Val = 6 /\ ~t.hasSeventh THEN tn.Val
  ELSE Int8(tn.Val + 7)

\* sort.Sort(spellTonesFor(tones, isSus))
SortSpellTones(tns, isSus) ==
  LET st == spellTonesFor(tns, isSus)
      sorted == SortKeyed([i \in 1..Len(tns) |->
                  [b |-> spellToneOrder(st, tns[i]), tone |-> tns[i]]])
  IN [i \in 1..Len(sorted) |-> sorted[i].tone]

\* lines 587-622: the tones of the chord in spelling order
SpellTones(c) ==
  LET scan == SpellScan(c.ExtraTones, c.Triad, 1, FALSE, FALSE)
      tns == <<MkTone(1, Natural)>>
             \o (IF c.Triad # Sus THEN <<MkTone(3, Natural)>> ELSE <<>>)
             \o (IF ~scan.hasFifth THEN <<fifthTone(c.Triad)>> ELSE <<>>)
             \o (IF ~scan.hasSeventh /\ (c.Triad = FDim \/ c.Triad = HDim)
                 THEN <<MkTone(7, Natural)>> ELSE <<>>)
             \o c.ExtraTones
  IN SortSpellTones(tns, c.Triad = Sus)

\* lines 624-633: the tones as intervals from the root
SpellIntervals(c) ==
  LET tns == SpellTones(c)
      std == standardIntervals[c.Triad]
  IN [i \in 1..Len(tns) |->
       LET v == IF tns[i].Val > 7 THEN tns[i].Val - 7 ELSE tns[i].Val
       IN MkInterval(v, Int8(std[(v - 1) + 1] + AccidentalOffset(tns[i].Acc)))]

Spell(c) ==
  LET ret == TransposeNote(c.Root, SpellIntervals(c))
  IN IF \E i \in 1..Len(ret) : ret[i] = PanicNote THEN PanicNotes
     ELSE IF c.Bass.N # 0 THEN <<c.Bass>> \o ret
     ELSE ret

-----------------------------------------------------------------------------
(* the String methods.  A string is the sequence of its runes.             *)

RuneNatural == 9838
RuneSharp == 9839
RuneFlat == 9837
RuneDblSharp == 119082
RuneDblFlat == 119083
RuneTriangle == 9651
RuneDelta == 8710
RuneOSlash == 248

Str(s) == [i \in 1..Len(s) |-> RuneCode[s[i]]]

AccidentalString(a) ==
  CASE a = Natural -> <<RuneNatural>>
    [] a = Sharp -> <<RuneSharp>>
    [] a = Flat -> <<RuneFlat>>
    [] a = DblSharp -> <<RuneDblSharp>>
    [] a = DblFlat -> <<RuneDblFlat>>

NoteNameString(n) == <<n>>

NoteString(n) ==
  IF n.Acc # Natural THEN NoteNameString(n.N) \o AccidentalString(n.Acc)
  ELSE NoteNameString(n.N)

TriadString(t) ==
  CASE t = Maj3 -> <<109, 97, 106>>
    [] t = Aug3 -> <<43>>
    [] t = Min3 -> <<45>>
    [] t = Dim3 -> <<100, 105, 109>>
    [] t = HDim -> <<RuneOSlash>>
    [] t = FDim -> <<111>>
    [] t = Sus -> <<115, 117, 115>>

\* fmt's %d of a tone value
Decimal(v) == IF v >= 10 THEN <<48 + (v \div 10), 48 + (v % 10)>> ELSE <<48 + v>>

ToneString(t) ==
  (IF t.Val = 7 /\ t.Acc = Sharp THEN <<RuneTriangle>>
   ELSE IF t.Acc # Natural THEN AccidentalString(t.Acc)
   ELSE <<>>) \o Decimal(t.Val)

IsDigit(c) == c >= 48 /\ c <= 57

\* the text String writes for tone i of the chord: the tone's text, less
\* the '7' that is implied
ChordToneText(c, i) ==
  LET t == c.ExtraTones[i]
      str == ToneString(t)
      n == Len(c.ExtraTones)
  IN IF t.Val = 7 /\ (t.Acc = Natural \/ t.Acc = Sharp)
        /\ (i - 1 = 0 \/ (c.Triad = Sus /\ i - 1 = 1))
        /\ ((i < n /\ c.ExtraTones[i + 1].Val > 7 /\ c.ExtraTones[i + 1].Acc = Natural)
            \/ (i = n /\ (c.Triad = FDim \/ c.Triad = HDim)))
     THEN SubSeq(str, 1, Len(str) - 1)
     ELSE str

\* lines 553-576: the loop of String over the tones; b is the buffer and
\* prev the previous text written
RECURSIVE ChordStringTones(_, _, _, _)
ChordStringTones(c, i, b, prev) ==
  IF i > Len(c.ExtraTones) THEN b
  ELSE LET str == ChordToneText(c, i)
       IN IF Len(str) = 0 THEN ChordStringTones(c, i + 1, b, prev)
          ELSE IF Len(prev) > 0 /\ IsDigit(prev[Len(prev)]) /\ IsDigit(str[1])
            THEN ChordStringTones(c, i + 1, b \o <<32>> \o str, str)
          ELSE ChordStringTones(c, i + 1, b \o str, str)

ChordString(c) ==
  ChordStringTones(c, 1,
    NoteString(c.Root) \o (IF c.Triad # Maj3 THEN TriadString(c.Triad) ELSE <<>>),
    <<>>)
  \o (IF c.Bass.N > 0 THEN <<47>> \o NoteString(c.Bass) ELSE <<>>)

-----------------------------------------------------------------------------
(* the lexer of chordparse.y.  The input is the sequence of its runes.     *)

SYM_NOTE == 57346
SYM_TONE == 57347
SYM_MAJ7 == 57348
SYM_SUS == 57349
SYM_ACCIDENTAL == 57350
SYM_MIN == 57351
SYM_DIM == 57352
SYM_HDIM == 57353
SYM_FDIM == 57354
SYM_AUG == 57355

lexEOF == -1

\* the triad value of the grammar's union
MkTriad(typ, susTone) == [typ |-> typ, susTone |-> susTone]

\* chordSymType: the parser state number and the union of the grammar
ZeroSym ==
  [yys |-> 0, ch |-> ZeroChord, n |-> ZeroNote, t |-> MkTone(0, Natural),
   acc |-> Natural, triad |-> MkTriad(Maj3, MkTone(0, Natural)),
   tones |-> <<>>, b |-> 0]

\* the rune at pos read without moving past it
nextInPlace(in, pos) ==
  IF pos = Len(in) THEN [c |-> lexEOF, pos |-> pos]
  ELSE [c |-> in[pos + 1], pos |-> pos]

\* chordLex.next: the rune read and the position after it
RECURSIVE next(_, _)
next(in, pos) ==
  IF pos = Len(in) THEN [c |-> lexEOF, pos |-> pos]
  ELSE IF in[pos + 1] = 32 THEN next(in, pos + 1)
  ELSE [c |-> in[pos + 1], pos |-> pos + 1]

peek(in, pos, dist) ==
  IF pos + dist >= Len(in) THEN lexEOF ELSE in[pos + dist + 1]

\* what Lex returns: the token, the value left in lval, the new position
Tok(char, lv, pos) == [char |-> char, lval |-> lv, pos |-> pos]

\* lines 277-354 of Lex: the token for rune c, read up to position pos
LexRune(in, c, pos, lval) ==
  IF c = lexEOF THEN Tok(0, lval, pos)
  ELSE IF c >= A /\ c <= G THEN Tok(SYM_NOTE, [lval EXCEPT !.b = Int8(c)], pos)
  ELSE CASE c = 115 ->
              IF peek(in, pos, 0) = 117 /\ peek(in, pos, 1) = 115
              THEN Tok(SYM_SUS, lval, pos + 2) ELSE Tok(c, lval, pos)
         [] c = 35 \/ c = RuneSharp ->
              Tok(SYM_ACCIDENTAL, [lval EXCEPT !.acc = Sharp], pos)
         [] c = 120 \/ c = RuneDblSharp ->
              Tok(SYM_ACCIDENTAL, [lval EXCEPT !.acc = DblSharp], pos)
         [] c = RuneFlat ->
              Tok(SYM_ACCIDENTAL, [lval EXCEPT !.acc = Flat], pos)
         [] c = RuneDblFlat ->
              Tok(SYM_ACCIDENTAL, [lval EXCEPT !.acc = DblFlat], pos)
         [] c = 98 ->
              IF peek(in, pos, 0) = 98
              THEN Tok(SYM_ACCIDENTAL, [lval EXCEPT !.acc = DblFlat], pos + 1)
              ELSE Tok(SYM_ACCIDENTAL, [lval EXCEPT !.acc = Flat], pos)
         [] c = 110 \/ c = RuneNatural ->
              Tok(SYM_ACCIDENTAL, [lval EXCEPT !.acc = Natural], pos)
         [] c = 97 ->
              IF peek(in, pos, 0) = 117 /\ peek(in, pos, 1) = 103
              THEN Tok(SYM_AUG, lval, pos + 2) ELSE Tok(c, lval, pos)
         [] c = 109 ->
              IF peek(in, pos, 0) = 97 /\ peek(in, pos, 1) = 106
              THEN Tok(SYM_MAJ7, lval, pos + 2)
              ELSE IF peek(in, pos, 0) = 105 /\ peek(in, pos, 1) = 110
              THEN Tok(SYM_MIN, lval, pos + 2)
              ELSE Tok(SYM_MIN, lval, pos)
         [] c = 100 ->
              IF peek(in, pos, 0) = 105 /\ peek(in, pos, 1) = 109
              THEN Tok(SYM_DIM, lval, pos + 2) ELSE Tok(c, lval, pos)
         [] c = RuneOSlash -> Tok(SYM_HDIM, lval, pos)
         [] c = 111 -> Tok(SYM_FDIM, lval, pos)
         [] c = RuneTriangle \/ c = RuneDelta -> Tok(SYM_MAJ7, lval, pos)
         [] c = 49 ->
              IF peek(in, pos, 0) = 49
              THEN Tok(SYM_TONE, [lval EXCEPT !.b = 11], pos + 1)
              ELSE IF peek(in, pos, 0) = 51
              THEN Tok(SYM_TONE, [lval EXCEPT !.b = 13], pos + 1)
              ELSE Tok(c, lval, pos)
         [] c = 57 -> Tok(SYM_TONE, [lval EXCEPT !.b = Int8(c) - 48], pos)
         [] OTHER -> Tok(c, lval, pos)

\* chordLex.Lex: "c := l.next()", then the token for c
LexAfter(in, nx, lval) == LexRune(in, nx.c, nx.pos, lval)

Lex(in, pos0, lval) == LexAfter(in, next(in, pos0), lval)

-----------------------------------------------------------------------------
(* the tables of the generated parser; index i of the Go arrays is index   *)
(* i + 1 here                                                              *)

chordNprod == 38
chordPrivate == 57344
chordLast == 90
chordFlag == -1000
chordEofCode == 1
chordErrCode == 2


chordExca ==
  << -1, 1, 1, -1, -2, 0 >>

chordAct ==
  << 6, 49, 50, 48, 5, 28, 4, 18, 30, 34,
     35, 39, 22, 8, 21, 27, 11, 13, 14, 15,
     16, 9, 7, 12, 17, 23, 24, 25, 26, 22,
     37, 19, 38, 20, 44, 10, 47, 45, 1, 36,
     31, 32, 23, 24, 25, 26, 46, 51, 52, 53,
     22, 3, 40, 27, 2, 0, 22, 29, 0, 27,
     33, 31, 32, 23, 24, 25, 26, 31, 32, 23,
     24, 25, 26, 22, 42, 0, 0, 0, 0, 0,
     0, 0, 0, 0, 41, 43, 23, 24, 25, 26 >>

chordPact ==
  << 2, -1000, -10, 7, -3, 2, -1000, 51, 45, 24,
     51, -1000, -1000, -1000, -1000, -1000, -1000, -1000, -1000, -1000,
     68, 66, -1000, -1000, -1000, -1000, -1000, -1000, -1000, -1000,
     -1000, -1000, -1000, 51, -1000, -1000, 51, 31, -12, -1000,
     -1000, -1000, -17, -1000, -1000, -1000, 51, 51, 51, -1000,
     -1000, -1000, -1000, -1000 >>

chordPgo ==
  << 0, 54, 38, 51, 35, 33, 21, 7, 0, 31 >>

chordR1 ==
  << 0, 2, 2, 1, 1, 1, 1, 1, 1, 1,
     1, 1, 3, 3, 6, 6, 6, 6, 6, 6,
     6, 6, 7, 7, 7, 7, 8, 8, 4, 4,
     9, 9, 9, 9, 9, 5, 5, 5 >>

chordR2 ==
  << 0, 1, 3, 2, 3, 4, 3, 3, 4, 5,
     5, 5, 1, 2, 1, 1, 1, 1, 1, 1,
     1, 1, 2, 3, 2, 3, 0, 2, 1, 2,
     1, 1, 1, 1, 1, 1, 1, 1 >>

chordChk ==
  << -1000, -2, -1, -3, 4, 14, -8, 15, 6, -6,
     -4, 9, 16, 10, 11, 12, 13, 17, -7, -9,
     -5, 7, 5, 18, 19, 20, 21, 8, 8, -3,
     -8, 16, 17, 15, -8, -8, 15, 6, 8, -8,
     -9, 18, 8, 19, -8, -8, 15, 5, 15, 18,
     19, -8, -8, -8 >>

chordDef ==
  << 0, -2, 1, 26, 12, 0, 3, 26, 26, 26,
     26, 14, 15, 16, 17, 18, 19, 20, 21, 28,
     0, 0, 30, 31, 32, 33, 34, 37, 13, 2,
     4, 35, 36, 26, 7, 6, 26, 0, 37, 27,
     29, 22, 0, 24, 5, 8, 26, 26, 26, 23,
     25, 9, 10, 11 >>

chordTok2 ==
  << 2, 3, 4, 5, 6, 7, 8, 9, 10, 11,
     12, 13 >>

chordTok3 ==
  << 0 >>

chordTok1Len == 56

chordTok1(c) ==
  CASE c = 0 -> 1
    [] c = 43 -> 17
    [] c = 45 -> 16
    [] c = 47 -> 14
    [] c = 50 -> 18
    [] c = 52 -> 19
    [] c = 53 -> 20
    [] c = 54 -> 21
    [] c = 55 -> 15
    [] OTHER -> 3

\* lines 406-439 of chordlex1: the number of token char in the parser's
\* numbering
TokenOf(char) ==
  IF char <= 0 THEN chordTok1(0)
  ELSE IF char < chordTok1Len THEN chordTok1(char)
  ELSE IF char >= chordPrivate /\ char < chordPrivate + Len(chordTok2)
    THEN chordTok2[(char - chordPrivate) + 1]
  ELSE IF chordTok3[1] = 0 THEN chordTok2[2]
  ELSE chordTok3[1]

\* chordlex1: the token read and its number
LexToken(lx) ==
  [char |-> lx.char, token |-> TokenOf(lx.char), lval |-> lx.lval, pos |-> lx.pos]

chordlex1(in, pos, lval) == LexToken(Lex(in, pos, lval))

-----------------------------------------------------------------------------
(* the driver of the generated parser.  ps is the state of one Parse call: *)
(* chordstate, chordp, the stack chordS, chordVAL, the lookahead (char,    *)
(* token, lval), Errflag, and the lexer's pos, res and err.  A nil res is  *)
(* the empty sequence and a nil err the empty string.                      *)

SyntaxError == "syntax error"

ParseStart(in) ==
  [in |-> in, state |-> 0, p |-> -1, S |-> <<>>, VAL |-> ZeroSym,
   char |-> -1, token |-> -1, lval |-> ZeroSym, Errflag |-> 0, n |-> 0,
   pos |-> 0, res |-> <<>>, err |-> "", ret |-> -1, label |-> "chordstack"]

\* $k of the production being reduced, pt the stack index before it
Dollar(ps, nt, pt, k) == ps.S[(pt - chordR2[nt + 1] + k) + 1]

\* a 7th is implied by any tone at all
HasAnyTone(tns) == Len(tns) > 0

\* "if tn.Val > 7 { hasHighTone = true }"
HasHighTone(tns) == \E i \in 1..Len(tns) : tns[i].Val > 7

\* the suspension tone put in front of the extra tones
WithSusFirst(tr, tns) ==
  IF tr.susTone.Val # 0 THEN <<tr.susTone>> \o tns ELSE tns

\* "append($3, $2.susTone)" when the triad has a suspension tone
WithSus(tr, tns) ==
  IF tr.susTone.Val # 0 THEN tns \o <<tr.susTone>> ELSE tns

\* the semantic action of production nt: the new chordVAL
SemanticValue(ps, nt, pt, val) ==
  LET Arg(k) == Dollar(ps, nt, pt, k)
      NewChord(root, triad, tns) == MkChord(root, triad, tns, ZeroNote, FALSE)
  IN CASE nt = 1 -> [val EXCEPT !.ch = Arg(1).ch]
       [] nt = 2 -> [val EXCEPT !.ch = [Arg(1).ch EXCEPT !.Bass = Arg(3).n]]
       [] nt = 3 -> [val EXCEPT !.ch = NewChord(Arg(1).n, Maj3, Arg(2).tones)]
       [] nt = 4 -> [val EXCEPT !.ch =
                       NewChord(Arg(1).n, Maj3, Arg(3).tones \o <<MkTone(7, Natural)>>)]
       [] nt = 5 -> [val EXCEPT !.ch =
                       NewChord(Arg(1).n, Maj3, Arg(4).tones \o <<MkTone(7, Sharp)>>)]
       [] nt = 6 -> [val EXCEPT !.ch =
                       NewChord(Arg(1).n, Arg(2).triad.typ, WithSus(Arg(2).triad, Arg(3).tones))]
       [] nt = 7 -> [val EXCEPT !.ch =
                       IF HasHighTone(Arg(3).tones)
                       THEN NewChord(Arg(1).n, Maj3, Arg(3).tones \o <<MkTone(7, Sharp)>>)
                       ELSE NewChord(Arg(1).n, Maj3, Arg(3).tones)]
       [] nt = 8 -> [val EXCEPT !.ch =
                       NewChord(Arg(1).n, Arg(2).triad.typ,
                          WithSus(Arg(2).triad, Arg(4).tones \o <<MkTone(7, Natural)>>))]
       [] nt = 9 -> [val EXCEPT !.ch =
                       NewChord(Arg(1).n, Arg(2).triad.typ,
                          WithSus(Arg(2).triad, Arg(5).tones \o <<MkTone(7, Sharp)>>))]
       [] nt = 10 -> [val EXCEPT !.ch =
                       NewChord(Arg(1).n, Arg(2).triad.typ,
                          WithSus(Arg(2).triad,
                            Arg(5).tones \o <<MkTone(7, Sharp), MkTone(Arg(4).b, Natural)>>))]
       [] nt = 11 -> [val EXCEPT !.ch =
                       NewChord(Arg(1).n, Arg(2).triad.typ,
                          WithSus(Arg(2).triad, Arg(5).tones \o <<MkTone(7, Arg(3).acc)>>))]
       [] nt = 12 -> [val EXCEPT !.n = MkNote(Arg(1).b, Natural)]
       [] nt = 13 -> [val EXCEPT !.n = MkNote(Arg(1).b, Arg(2).acc)]
       [] nt = 14 \/ nt = 15 -> [val EXCEPT !.triad = MkTriad(Min3, MkTone(0, Natural))]
       [] nt = 16 -> [val EXCEPT !.triad = MkTriad(Dim3, MkTone(0, Natural))]
       [] nt = 17 -> [val EXCEPT !.triad = MkTriad(HDim, MkTone(0, Natural))]
       [] nt = 18 -> [val EXCEPT !.triad = MkTriad(FDim, MkTone(0, Natural))]
       [] nt = 19 \/ nt = 20 -> [val EXCEPT !.triad = MkTriad(Aug3, MkTone(0, Natural))]
       [] nt = 21 -> [val EXCEPT !.triad = Arg(1).triad]
       [] nt = 22 -> [val EXCEPT !.triad = MkTriad(Sus, MkTone(2, Natural))]
       [] nt = 23 -> [val EXCEPT !.triad = MkTriad(Sus, MkTone(2, Arg(2).acc))]
       [] nt = 24 -> [val EXCEPT !.triad = MkTriad(Sus, MkTone(4, Natural))]
       [] nt = 25 -> [val EXCEPT !.triad = MkTriad(Sus, MkTone(4, Arg(2).acc))]
       [] nt = 26 -> [val EXCEPT !.tones = <<>>]
       [] nt = 27 -> [val EXCEPT !.tones = <<Arg(1).t>> \o Arg(2).tones]
       [] nt = 28 -> [val EXCEPT !.t = MkTone(Arg(1).b, Natural)]
       [] nt = 29 -> [val EXCEPT !.t = MkTone(Arg(2).b, Arg(1).acc)]
       [] nt = 30 -> [val EXCEPT !.b = Arg(1).b]
       [] nt = 31 -> [val EXCEPT !.b = 2]
       [] nt = 32 -> [val EXCEPT !.b = 4]
       [] nt = 33 -> [val EXCEPT !.b = 5]
       [] nt = 34 -> [val EXCEPT !.b = 6]
       [] nt = 35 -> [val EXCEPT !.acc = Flat]
       [] nt = 36 -> [val EXCEPT !.acc = Sharp]
       [] nt = 37 -> [val EXCEPT !.acc = Arg(1).acc]

\* "if chordrcvr.char < 0 { chordrcvr.char, chordtoken = chordlex1(...) }"
WithToken(ps, lx) ==
  [ps EXCEPT !.char = lx.char, !.token = lx.token, !.lval = lx.lval, !.pos = lx.pos]

Lookahead(ps) ==
  IF ps.char < 0 THEN WithToken(ps, chordlex1(ps.in, ps.pos, ps.lval)) ELSE ps

\* the entry of the exception table for the state and token
RECURSIVE ExcaState(_, _)
ExcaState(xi, state) ==
  IF chordExca[xi + 1] = -1 /\ chordExca[xi + 2] = state THEN xi
  ELSE ExcaState(xi + 2, state)

RECURSIVE ExcaToken(_, _)
ExcaToken(xi, token) ==
  IF chordExca[xi + 1] < 0 \/ chordExca[xi + 1] = token THEN xi
  ELSE ExcaToken(xi + 2, token)

\* chordS[i] = v on a stack that keeps what was popped
StackSet(S, i, v) ==
  IF i + 1 <= Len(S) THEN [S EXCEPT ![i + 1] = v] ELSE Append(S, v)

StackGet(S, i) == IF i + 1 <= Len(S) THEN S[i + 1] ELSE ZeroSym

\* The labels of Parse.  Each is an operator that takes the state of the
\* call to the next label (ps.label); chordn is ps.n.

chordstack(ps) ==
  LET p == ps.p + 1
  IN [ps EXCEPT !.label = "chordnewstate", !.p = p,
        !.S = StackSet(ps.S, p, [ps.VAL EXCEPT !.yys = ps.state])]

\* lines 495-509: shift the lookahead ps1.token if the tables allow it
ShiftTo(ps1, n) ==
  IF chordChk[n + 1] = ps1.token
  THEN [ps1 EXCEPT !.label = "chordstack", !.char = -1, !.token = -1,
          !.VAL = ps1.lval, !.state = n,
          !.Errflag = IF ps1.Errflag > 0 THEN ps1.Errflag - 1 ELSE ps1.Errflag]
  ELSE [ps1 EXCEPT !.label = "chorddefault"]

ShiftOrDefault(ps1, n1) ==
  IF n1 < 0 \/ n1 >= chordLast THEN [ps1 EXCEPT !.label = "chorddefault"]
  ELSE ShiftTo(ps1, chordAct[n1 + 1])

ShiftLookahead(ps1, n0) == ShiftOrDefault(ps1, n0 + ps1.token)

chordnewstate(ps) ==
  IF chordPact[ps.state + 1] <= chordFlag THEN [ps EXCEPT !.label = "chorddefault"]
  ELSE ShiftLookahead(Lookahead(ps), chordPact[ps.state + 1])

\* lines 519-536: the action the exception table gives
ExcaAction(ps1, n) ==
  IF n < 0 THEN [ps1 EXCEPT !.label = "ret", !.ret = 0]
  ELSE IF n = 0 THEN [ps1 EXCEPT !.label = "chorderror", !.n = n]
  ELSE [ps1 EXCEPT !.label = "chordreduce", !.n = n]

ExcaLookup(ps1) ==
  ExcaAction(ps1,
    chordExca[ExcaToken(ExcaState(0, ps1.state) + 2, ps1.token) + 2])

\* lines 511-537: the default action of the state, through the exception
\* table when the table says so
DefaultAction(ps, n0) ==
  IF n0 = -2 THEN ExcaLookup(Lookahead(ps))
  ELSE IF n0 = 0 THEN [ps EXCEPT !.label = "chorderror", !.n = n0]
  ELSE [ps EXCEPT !.label = "chordreduce", !.n = n0]

chorddefault(ps) == DefaultAction(ps, chordDef[ps.state + 1])

\* lines 553-570: the search for a state that shifts "error" pops the stack
RECURSIVE ErrorShift(_)
ErrorShift(ps) ==
  IF ps.p < 0 THEN [ps EXCEPT !.label = "ret", !.ret = 1]
  ELSE LET n == chordPact[ps.S[ps.p + 1].yys + 1] + chordErrCode
       IN IF n >= 0 /\ n < chordLast /\ chordChk[chordAct[n + 1] + 1] = chordErrCode
          THEN [ps EXCEPT !.label = "chordstack", !.state = chordAct[n + 1]]
          ELSE ErrorShift([ps EXCEPT !.p = ps.p - 1])

\* lines 538-583: a syntax error
chorderror(ps) ==
  IF ps.Errflag = 0
    THEN ErrorShift([ps EXCEPT !.err = SyntaxError, !.Errflag = 3])
  ELSE IF ps.Errflag = 1 \/ ps.Errflag = 2
    THEN ErrorShift([ps EXCEPT !.Errflag = 3])
  ELSE IF ps.token = chordEofCode THEN [ps EXCEPT !.label = "ret", !.ret = 1]
  ELSE [ps EXCEPT !.label = "chordnewstate", !.char = -1, !.token = -1]

\* lines 604-616: the state the goto table gives after production nt
GotoState(ps, p, n, g) ==
  IF g + ps.S[p + 1].yys + 1 >= chordLast THEN chordAct[g + 1]
  ELSE IF chordChk[chordAct[(g + ps.S[p + 1].yys + 1) + 1] + 1] # -n
    THEN chordAct[g + 1]
  ELSE chordAct[(g + ps.S[p + 1].yys + 1) + 1]

Reduced(ps, nt, p, state, val) ==
  [ps EXCEPT !.label = "chordstack", !.p = p, !.state = state, !.VAL = val,
             !.res = IF nt = 1 \/ nt = 2 THEN <<val.ch>> ELSE @]

ReduceBy(ps, nt, p) ==
  Reduced(ps, nt, p,
          GotoState(ps, p, chordR1[nt + 1], chordPgo[chordR1[nt + 1] + 1]),
          SemanticValue(ps, nt, ps.p, StackGet(ps.S, p + 1)))

\* lines 585 to the end of Parse: reduction by production ps.n
chordreduce(ps) == ReduceBy(ps, ps.n, ps.p - chordR2[ps.n + 1])

\* one jump of Parse
ParseStep(ps) ==
  CASE ps.label = "chordstack" -> chordstack(ps)
    [] ps.label = "chordnewstate" -> chordnewstate(ps)
    [] ps.label = "chorddefault" -> chorddefault(ps)
    [] ps.label = "chorderror" -> chorderror(ps)
    [] ps.label = "chordreduce" -> chordreduce(ps)

\* at most 2^k jumps of Parse, stopping at a return; the state is evaluated
\* once for each jump, by binding it as the element of a singleton set
RECURSIVE ParseJumps(_, _)
ParseJumps(arg, k) ==
  CHOOSE r \in {IF ps.label = "ret" THEN ps
                ELSE IF k = 0 THEN ParseStep(ps)
                ELSE ParseJumps(ParseJumps(ps, k - 1), k - 1)
                : ps \in {arg}} : TRUE

\* Parse, from "goto chordstack" to a return, 32 jumps at a time
RECURSIVE Parse(_)
Parse(arg) ==
  CHOOSE r \in {IF ps.label = "ret" THEN ps ELSE Parse(ParseJumps(ps, 5))
                : ps \in {arg}} : TRUE

\* chordParse(lx): the lexer after the parse
chordParse(in) == Parse(ParseStart(in))

\* ParseChord: lx.res and lx.err
ParseChord(s) ==
  LET lx == chordParse(s)
  IN [res |-> lx.res, err |-> lx.err]

-----------------------------------------------------------------------------
(* The specifications.  Each one drives some of the operations; the        *)
(* variables of the others keep their initial values.  A panic ends the    *)
(* program: no operation follows it.                                       *)

ZeroInterval == MkInterval(0, 0)

NotesIdle ==
  /\ note = ZeroNote /\ interval = ZeroInterval /\ other = ZeroNote
  /\ noteOut = ZeroNote /\ intvOut = ZeroInterval /\ num = 0

\* no parts are recorded for the text
NoForm ==
  [root  |-> [text |-> <<>>, note |-> ZeroNote],
   head  |-> [text |-> <<>>, kind |-> "", tone |-> MkTone(0, Natural)],
   tones |-> <<>>]

LexIdle == lexPos = 0 /\ lexTok = -1

ParseIdle == form = NoForm /\ input = <<>> /\ res = <<>> /\ LexIdle

NotParsed == [res |-> <<>>, err |-> ""]

ChordIdle ==
  /\ err = "" /\ given = ZeroChord /\ ch = ZeroChord /\ chB = ZeroChord
  /\ reparsed = NotParsed /\ spelled = <<>> /\ rendered = <<>>

notesVars == <<note, interval, other, noteOut, intvOut, num>>
parseVars == <<form, input, res, lexPos, lexTok>>
chordVars == <<err, given, ch, chB, reparsed, spelled, rendered>>

-----------------------------------------------------------------------------
(* SpecNotes: Transpose and IntervalTo on every valid note and interval    *)

NotesInit ==
  /\ pc = "new"
  /\ note \in Notes /\ interval \in Intervals /\ other \in Notes
  /\ noteOut = ZeroNote /\ intvOut = ZeroInterval /\ num = 0
  /\ ParseIdle /\ ChordIdle

\* noteOut = note.Transpose(interval)
TransposeCall ==
  /\ pc # "panic"
  /\ noteOut' = Transpose(note, interval)
  /\ pc' = IF noteOut' = PanicNote THEN "panic" ELSE "Transpose"
  /\ UNCHANGED <<note, interval, other, intvOut, num, parseVars, chordVars>>

\* intvOut = note.IntervalTo(other)
IntervalToCall ==
  /\ pc # "panic"
  /\ intvOut' = IntervalTo(note, other)
  /\ pc' = IF intvOut' = PanicInterval THEN "panic" ELSE "IntervalTo"
  /\ UNCHANGED <<note, interval, other, noteOut, num, parseVars, chordVars>>

NotesNext == TransposeCall \/ IntervalToCall

SpecNotes == NotesInit /\ [][NotesNext]_vars

\* the letter k letters after n, cyclically in A..G
LetterAfter(n, k) == A + ((n - A + k) % 7)

\* some accidental in [-2,2] on the target letter gives the target pitch
TransposeSolvable(n, i) ==
  \E a \in Accidentals :
    (NoteNameCardinal(LetterAfter(n.N, i.Val - 1)) + a) % 12
      = (NoteCardinal(n) + NumHalfSteps(i)) % 12

\* C1: whenever Transpose has been called on a valid note and a valid
\* interval for which an accidental in [-2,2] solves the congruence, it has
\* returned, without failing, the note whose letter is the receiver's letter
\* advanced by Val-1 and whose Cardinal is the receiver's Cardinal plus the
\* interval's half steps, modulo 12.
C1_TransposeCorrect ==
  (noteOut # ZeroNote /\ TransposeSolvable(note, interval)) =>
    /\ noteOut # PanicNote
    /\ noteOut.N = LetterAfter(note.N, interval.Val - 1)
    /\ NoteCardinal(noteOut) = (NoteCardinal(note) + NumHalfSteps(interval)) % 12

\* Transpose has returned the right note from a natural or sharp receiver
C1_TransposeReturned ==
  /\ noteOut # ZeroNote /\ noteOut # PanicNote
  /\ TransposeSolvable(note, interval)
  /\ note.Acc = Sharp /\ interval.Offset = -2
  /\ noteOut.N = LetterAfter(note.N, interval.Val - 1)
  /\ NoteCardinal(noteOut) = (NoteCardinal(note) + NumHalfSteps(interval)) % 12

\* C4: whenever IntervalTo has been called on two valid notes, of the same
\* letter or not, it has returned a valid Interval: Val in 1..7 and Offset
\* in -2..2.
C4_IntervalToValid ==
  intvOut # ZeroInterval => IntervalIsValid(intvOut)

\* IntervalTo has returned a valid interval for notes of different letters
C4_IntervalToReturned ==
  intvOut # ZeroInterval /\ note.N # other.N /\ IntervalIsValid(intvOut)

\* the procedure stated for IntervalTo: from the degree of the letter
\* distance, step the degree down while the offset is below -2 and up while
\* it is above 2
StatedOffset(a, b, degree) ==
  ((NoteCardinal(b) - NoteCardinal(a)) % 12) - stepsByInterval[(degree - 1) + 1]

RECURSIVE StatedDown(_, _, _, _)
StatedDown(a, b, degree, fuel) ==
  IF StatedOffset(a, b, degree) >= -2 \/ fuel = 0 THEN degree
  ELSE StatedDown(a, b, IF degree = 1 THEN 7 ELSE degree - 1, fuel - 1)

RECURSIVE StatedUp(_, _, _, _)
StatedUp(a, b, degree, fuel) ==
  IF StatedOffset(a, b, degree) <= 2 \/ fuel = 0 THEN degree
  ELSE StatedUp(a, b, IF degree = 7 THEN 1 ELSE degree + 1, fuel - 1)

StatedIntervalTo(a, b) ==
  LET d0 == ((b.N - a.N) % 7) + 1
      d == StatedUp(a, b, StatedDown(a, b, d0, MaxLoop), MaxLoop)
  IN MkInterval(d, StatedOffset(a, b, d))

\* C5: whenever IntervalTo has returned an interval for two valid notes,
\* the interval is the result of the stated procedure; when the first
\* offset is already in [-2,2] the degree returned is the letter distance
\* plus one.
C5_IntervalToAsStated ==
  (intvOut # ZeroInterval /\ intvOut # PanicInterval) =>
    intvOut = StatedIntervalTo(note, other)

\* IntervalTo has returned what the stated procedure gives (a descending
\* letter distance)
C5_IntervalToAgrees ==
  /\ intvOut # ZeroInterval /\ note.N > other.N
  /\ intvOut = StatedIntervalTo(note, other)

-----------------------------------------------------------------------------
(* SpecArith: Cardinal, NumHalfSteps and Negate on every valid note and    *)
(* interval                                                                *)

ArithInit ==
  /\ pc = "new"
  /\ note \in Notes /\ interval \in Intervals /\ other \in Notes
  /\ noteOut = ZeroNote /\ intvOut = ZeroInterval /\ num = 0
  /\ ParseIdle /\ ChordIdle

\* num = note.Cardinal()
CardinalCall ==
  /\ pc # "panic"
  /\ num' = NoteCardinal(note)
  /\ pc' = "Cardinal"
  /\ UNCHANGED <<note, interval, other, noteOut, intvOut, parseVars, chordVars>>

\* num = interval.NumHalfSteps()
NumHalfStepsCall ==
  /\ pc # "panic"
  /\ num' = NumHalfSteps(interval)
  /\ pc' = "NumHalfSteps"
  /\ UNCHANGED <<note, interval, other, noteOut, intvOut, parseVars, chordVars>>

\* noteOut = Negate(note, other)[0]
NegateCall ==
  /\ pc # "panic"
  /\ noteOut' = Negate(note, <<other>>)[1]
  /\ pc' = IF noteOut' = PanicNote THEN "panic" ELSE "Negate"
  /\ UNCHANGED <<note, interval, other, intvOut, num, parseVars, chordVars>>

ArithNext == CardinalCall \/ NumHalfStepsCall \/ NegateCall

SpecArith == ArithInit /\ [][ArithNext]_vars

\* the letter cardinals as stated: A=0, B=2, C=3, D=5, E=7, F=8, G=10
StatedLetterCardinal ==
  (A :> 0) @@ (B :> 2) @@ (C :> 3) @@ (D :> 5) @@ (E :> 7) @@ (F :> 8) @@ (G :> 10)

\* C16: for every letter and every accidental, Cardinal() is the letter's
\* cardinal plus the accidental's offset, modulo 12, and lies in 0..11
C16_CardinalModTwelve ==
  pc = "Cardinal" =>
    /\ num = (StatedLetterCardinal[note.N] + note.Acc) % 12
    /\ num \in 0..11

\* Cardinal has returned for a note below A: A flat is 11
C16_CardinalWrapped ==
  pc = "Cardinal" /\ note = MkNote(A, Flat) /\ num = 11

\* the step table as stated
StatedStepTable == <<0, 2, 4, 5, 7, 9, 11>>

\* C17: for every degree 1..7 and offset -2..2, NumHalfSteps() is the
\* step of the degree plus the offset, modulo 12, and lies in 0..11
C17_NumHalfStepsModTwelve ==
  pc = "NumHalfSteps" =>
    /\ num = (StatedStepTable[interval.Val] + interval.Offset) % 12
    /\ num \in 0..11

\* NumHalfSteps has returned for an interval that wraps: degree 7 offset 1
\* gives 0
C17_NumHalfStepsWrapped ==
  pc = "NumHalfSteps" /\ interval = MkInterval(7, 1) /\ num = 0

\* C18: for every valid root and every valid note n, Negate(root, n)
\* returns a note that is the reflection of n around the root: its distance
\* above the root is the distance of n below the root, modulo 12; a note
\* enharmonic to the root is returned unchanged
C18_NegateReflects ==
  pc \in {"Negate", "panic"} =>
    /\ noteOut # PanicNote
    /\ (NoteCardinal(noteOut) - NoteCardinal(note)) % 12
         = (NoteCardinal(note) - NoteCardinal(other)) % 12
    /\ NoteCardinal(other) = NoteCardinal(note) => noteOut = other

\* Negate has returned the reflection of a note that is not the root's pitch
C18_NegateReturned ==
  /\ pc = "Negate" /\ NoteCardinal(other) # NoteCardinal(note)
  /\ (NoteCardinal(noteOut) - NoteCardinal(note)) % 12
       = (NoteCardinal(note) - NoteCardinal(other)) % 12

-----------------------------------------------------------------------------
(* The operations on a chord, in the order the command (main) performs     *)
(* them: ParseChord, Validate, Canonicalize, String, Spell.  Nothing is    *)
(* done with a text ParseChord rejects or a chord Validate rejects.        *)

\* res, err = ParseChord(input); ch is what res points to
ParseChordCall ==
  /\ pc = "text"
  /\ LET r == ParseChord(input)
     IN /\ res' = r.res /\ err' = r.err
        /\ ch' = IF r.res = <<>> THEN ZeroChord ELSE r.res[1]
        /\ given' = ch'
  /\ pc' = "ParseChord"
  /\ UNCHANGED <<form, input, lexPos, lexTok, chB, reparsed, spelled, rendered, notesVars>>

\* err = ch.Validate(); on a nil chord the call panics
ValidateCall ==
  /\ pc = "new" \/ (pc = "ParseChord" /\ err = "")
  /\ IF pc = "ParseChord" /\ res = <<>>
     THEN pc' = "panic" /\ err' = err
     ELSE pc' = "Validate" /\ err' = Validate(ch)
  /\ UNCHANGED <<given, ch, chB, reparsed, spelled, rendered, notesVars, parseVars>>

\* ch.Canonicalize(), a first time or again; the order in which the map of
\* tones is ranged over is any order
CanonicalizeCall ==
  /\ pc \in {"Validate", "Canonicalize", "CanonicalizeAgain"} /\ err = ""
  /\ \E ord \in {"asc", "desc"} : ch' = Canonicalize(ch, ord)
  /\ pc' = IF pc = "Validate" THEN "Canonicalize" ELSE "CanonicalizeAgain"
  /\ UNCHANGED <<given, chB, err, reparsed, spelled, rendered, notesVars, parseVars>>

\* rendered = ch.String()
StringCall ==
  /\ pc \in {"Validate", "Canonicalize", "CanonicalizeAgain"} /\ err = ""
  /\ rendered' = ChordString(ch)
  /\ pc' = "String"
  /\ UNCHANGED <<given, ch, chB, err, reparsed, spelled, notesVars, parseVars>>

\* spelled = ch.Spell()
SpellCall ==
  /\ pc \in {"Validate", "Canonicalize", "CanonicalizeAgain", "String"} /\ err = ""
  /\ spelled' = Spell(ch)
  /\ pc' = IF spelled' = PanicNotes THEN "panic" ELSE "Spell"
  /\ UNCHANGED <<given, ch, chB, err, reparsed, rendered, notesVars, parseVars>>

\* reparsed = ParseChord(ch.String())
ReparseCall ==
  /\ pc = "String"
  /\ reparsed' = ParseChord(rendered)
  /\ pc' = "Reparse"
  /\ UNCHANGED <<given, ch, chB, err, spelled, rendered, notesVars, parseVars>>

\* chB.Canonicalize()
CanonicalizeOther ==
  /\ pc \in {"Validate", "Canonicalize", "CanonicalizeAgain"} /\ err = ""
  /\ ~chB.canonical
  /\ \E ord \in {"asc", "desc"} : chB' = Canonicalize(chB, ord)
  /\ UNCHANGED <<pc, given, ch, err, reparsed, spelled, rendered, notesVars, parseVars>>

-----------------------------------------------------------------------------
(* the chords tried                                                        *)

MaxTones == 2
MaxSpellTones == 2
MaxPairTones == 1

\* the tone values Validate accepts as chord extras
ExtraVals == {2, 4, 5, 6, 7, 9, 11, 12, 13, 14}

ExtraTonePool == {MkTone(v, a) : v \in ExtraVals, a \in Accidentals}

ToneSeqs(pool, n) == UNION {[1..k -> pool] : k \in 0..n}

\* root and bass of the chords spelled: natural, sharp, flat, double-flat
\* and double-sharp roots, with and without a bass note
RootsAndBasses ==
  { <<MkNote(C, Natural), ZeroNote>>, <<MkNote(F, Sharp), MkNote(A, Sharp)>>,
    <<MkNote(B, Flat), MkNote(D, Natural)>>, <<MkNote(E, DblFlat), ZeroNote>>,
    <<MkNote(G, DblSharp), MkNote(B, Flat)>> }

NothingDone ==
  /\ chB = ZeroChord /\ err = "" /\ reparsed = NotParsed
  /\ spelled = <<>> /\ rendered = <<>>

-----------------------------------------------------------------------------
(* SpecRound: IntervalTo between every two valid notes, then Transpose of  *)
(* the first note by the interval measured                                 *)

RoundInit ==
  /\ pc = "new"
  /\ note \in Notes /\ other \in Notes /\ interval = ZeroInterval
  /\ noteOut = ZeroNote /\ intvOut = ZeroInterval /\ num = 0
  /\ ParseIdle /\ ChordIdle

\* noteOut = note.Transpose(intvOut), intvOut being note.IntervalTo(other)
TransposeMeasuredCall ==
  /\ pc = "IntervalTo"
  /\ noteOut' = Transpose(note, intvOut)
  /\ pc' = IF noteOut' = PanicNote THEN "panic" ELSE "Transpose"
  /\ UNCHANGED <<note, interval, other, intvOut, num, parseVars, chordVars>>

RoundNext ==
  \/ pc = "new" /\ IntervalToCall
  \/ TransposeMeasuredCall

SpecRound == RoundInit /\ [][RoundNext]_vars

\* C28: for every pair of valid notes a and b, a.IntervalTo(b) and
\* a.Transpose of it return without failing, and the note returned has the
\* Cardinal of b
C28_RoundTrip ==
  /\ pc # "panic"
  /\ pc = "Transpose" => NoteCardinal(noteOut) = NoteCardinal(other)

\* Transpose has returned, for two notes of different letters, a note of
\* the Cardinal of the second
C28_RoundTripReturned ==
  /\ pc = "Transpose" /\ note.N # other.N
  /\ NoteCardinal(noteOut) = NoteCardinal(other)

-----------------------------------------------------------------------------
(* SpecCanon: Canonicalize on every chord on C of at most MaxTones extra   *)
(* tones that Validate has accepted                                        *)

CanonInit ==
  /\ pc = "Validate"
  /\ \E t \in TriadTypes, tns \in ToneSeqs(ExtraTonePool, MaxTones) :
       /\ ch = MkChord(MkNote(C, Natural), t, tns, ZeroNote, FALSE)
       /\ Validate(ch) = ""
  /\ given = ch
  /\ NothingDone /\ NotesIdle /\ ParseIdle

CanonNext == CanonicalizeCall

SpecCanon == CanonInit /\ [][CanonNext]_vars


\* Canonicalize has returned at least once
Canonicalized == pc \in {"Canonicalize", "CanonicalizeAgain"}

\* C7: once a chord is canonical, a further call of Canonicalize leaves
\* every field of it (Triad, ExtraTones, Root, Bass, canonical) as it was
C7_CanonicalizeAgainIsNoOp ==
  [][pc' = "CanonicalizeAgain" => (ch.canonical /\ ch' = ch)]_vars

\* a second call has returned on a chord the first call changed
C7_CalledAgain ==
  /\ pc = "CanonicalizeAgain" /\ ch.canonical
  /\ (ch.Triad # given.Triad \/ ch.ExtraTones # given.ExtraTones)

\* the chord given is a minor triad with a flat 5 among its extra tones
MinorFlatFive ==
  given.Triad = Min3 /\ containsTone(given.ExtraTones, MkTone(5, Flat))

\* a tone of value 7 is among the tones given
SeventhStated ==
  \E i \in 1..Len(given.ExtraTones) : given.ExtraTones[i].Val = 7

\* a tone above 7 is among the tones given
ToneAboveSeventh ==
  \E i \in 1..Len(given.ExtraTones) : given.ExtraTones[i].Val > 7

SeventhKept ==
  \E i \in 1..Len(given.ExtraTones) :
    given.ExtraTones[i].Val = 7 /\ given.ExtraTones[i].Acc # DblSharp

C10_OneTonePerDegree ==
  Canonicalized =>
    \A i, j \in 1..Len(ch.ExtraTones) :
      i # j => ch.ExtraTones[i].Val % 7 # ch.ExtraTones[j].Val % 7


\* the values of the tones of a chord
ToneVals(c) == {c.ExtraTones[i].Val : i \in 1..Len(c.ExtraTones)}

\* the indexes of the tones of c whose value is in vals
TonesOf(c, vals) == {i \in 1..Len(c.ExtraTones) : c.ExtraTones[i].Val \in vals}

\* C19: after Canonicalize on a validated chord, if ExtraTones has a tone of
\* value 7 it has no tone of value 12 or 14 and no tone of value 2, 4 or 6,
\* except the single suspension tone (value 2 or 4) of a chord that is still
\* Sus; if it has no tone of value 7, every tone has a value of at most 7
C19_DegreesConsolidated ==
  Canonicalized =>
    IF 7 \in ToneVals(ch)
    THEN /\ ToneVals(ch) \cap {12, 14} = {}
         /\ IF ch.Triad = Sus
            THEN 6 \notin ToneVals(ch) /\ Cardinality(TonesOf(ch, {2, 4})) <= 1
            ELSE ToneVals(ch) \cap {2, 4, 6} = {}
    ELSE \A v \in ToneVals(ch) : v <= 7

\* Canonicalize has returned a Sus chord with a 7th, a demoted suspension
\* tone and a tone left in the high range
C19_SusDemoted ==
  /\ Canonicalized /\ ch.Triad = Sus /\ 7 \in ToneVals(ch)
  /\ ToneVals(ch) \cap {2, 4} # {} /\ ToneVals(ch) \cap {9, 11, 13} # {}


\* the stated order of two tones: by value, a 5 after every other value,
\* and by accidental for equal values
StatedBefore(x, y) ==
  IF x.Val = y.Val THEN x.Acc < y.Acc
  ELSE IF x.Val = 5 THEN FALSE
  ELSE IF y.Val = 5 THEN TRUE
  ELSE x.Val < y.Val

\* C20: after Canonicalize no two tones of ExtraTones are equal, the tones
\* are in strictly ascending order of value, a 5 after every other value and
\* equal values by ascending accidental, and the chord is the one the call
\* gives for either order of ranging over the maps
C20_SortedAndDistinct ==
  Canonicalized =>
    /\ \A i, j \in 1..Len(ch.ExtraTones) :
         i < j => StatedBefore(ch.ExtraTones[i], ch.ExtraTones[j])
    /\ ch = CanonicalizeBody(given, "asc")
    /\ ch = CanonicalizeBody(given, "desc")

\* Canonicalize has merged a 2 and a 9 of the same accidental into one tone
C20_MergedAndFifthLast ==
  /\ Canonicalized
  /\ Len(given.ExtraTones) > Len(ch.ExtraTones)
  /\ \E a \in Accidentals : containsTone(given.ExtraTones, MkTone(2, a))
                         /\ containsTone(given.ExtraTones, MkTone(9, a))


\* chord c has a tone of degree v (value v or v + 7) with accidental a
HasKind(c, v, a) ==
  containsTone(c.ExtraTones, MkTone(v, a)) \/ containsTone(c.ExtraTones, MkTone(v + 7, a))

\* the kinds of tone that convert a sus chord, in the stated priority, with
\* the triad each converts to
SusKinds ==
  << [v |-> 4, a |-> Flat, to |-> Maj3], [v |-> 4, a |-> DblFlat, to |-> Min3],
     [v |-> 2, a |-> Sharp, to |-> Min3], [v |-> 2, a |-> DblSharp, to |-> Maj3] >>

\* the first kind in the priority that chord c has, 0 if it has none
FirstSusKind(c) ==
  IF \E k \in 1..4 : HasKind(c, SusKinds[k].v, SusKinds[k].a)
  THEN CHOOSE k \in 1..4 :
         /\ HasKind(c, SusKinds[k].v, SusKinds[k].a)
         /\ \A j \in 1..(k - 1) : ~HasKind(c, SusKinds[j].v, SusKinds[j].a)
  ELSE 0

\* C21: for a chord given as Sus, Canonicalize converts the triad at most
\* once, by the first kind present of: flat 4/11 to Maj3, double-flat 4/11 to
\* Min3, sharp 2/9 to Min3, double-sharp 2/9 to Maj3; the tones of that kind
\* are removed, the tones of the kinds after it are left in place, and with
\* none of the kinds present the triad stays Sus
C21_SusConversion ==
  Canonicalized /\ given.Triad = Sus =>
    LET m == FirstSusKind(given)
    IN IF m = 0 THEN ch.Triad = Sus
       ELSE /\ ch.Triad = SusKinds[m].to
            /\ ~HasKind(ch, SusKinds[m].v, SusKinds[m].a)
            /\ \A j \in (m + 1)..4 :
                 HasKind(given, SusKinds[j].v, SusKinds[j].a)
                   => HasKind(ch, SusKinds[j].v, SusKinds[j].a)

\* Canonicalize has converted a Sus chord with a flat 4 and a sharp 2 to
\* Maj3 and has left the sharp 2
C21_FlatFourBeforeSharpTwo ==
  /\ Canonicalized /\ given.Triad = Sus
  /\ HasKind(given, 4, Flat) /\ HasKind(given, 2, Sharp)
  /\ ch.Triad = Maj3 /\ HasKind(ch, 2, Sharp)


\* C22: after Canonicalize, a chord that was given a tone of value above 7,
\* or whose triad has become HDim or FDim, has a tone of value 7 in
\* ExtraTones, and has {7, natural} when no tone of value 7 was given
C22_ImpliedSeventhMaterialized ==
  Canonicalized /\ (ToneAboveSeventh \/ ch.Triad \in {HDim, FDim}) =>
    /\ 7 \in ToneVals(ch)
    /\ ~SeventhStated => containsTone(ch.ExtraTones, MkTone(7, Natural))

\* Canonicalize has added a natural 7 to a chord given a 9 and no 7
C22_SeventhAdded ==
  /\ Canonicalized /\ ~SeventhStated
  /\ containsTone(given.ExtraTones, MkTone(9, Natural))
  /\ containsTone(ch.ExtraTones, MkTone(7, Natural))


\* C23: a chord Validate accepted that is still Sus after Canonicalize has a
\* tone of value 2 or 4; and a Sus chord given a flat 5 whose tones of
\* degree 2 and 4 are all sharp 4/11 ends with exactly one {4, sharp}
C23_SuspensionToneKept ==
  Canonicalized /\ ch.Triad = Sus =>
    /\ ToneVals(ch) \cap {2, 4} # {}
    /\ ( ( /\ containsTone(given.ExtraTones, MkTone(5, Flat))
           /\ \A i \in TonesOf(given, {2, 4, 9, 11}) :
                given.ExtraTones[i] \in {MkTone(4, Sharp), MkTone(11, Sharp)} )
         => Cardinality({i \in TonesOf(ch, {2, 4, 9, 11}) :
                           ch.ExtraTones[i] = MkTone(4, Sharp)}) = 1 )

\* Canonicalize has restored the sharp 4 of a Sus chord with a flat 5 and a
\* sharp 11
C23_SharpFourRestored ==
  /\ Canonicalized /\ ch.Triad = Sus
  /\ given.ExtraTones = <<MkTone(5, Flat), MkTone(11, Sharp)>>
  /\ containsTone(ch.ExtraTones, MkTone(4, Sharp))

-----------------------------------------------------------------------------
(* SpecAgain: after Canonicalize on a chord Validate has accepted, Validate *)
(* is called on it again, and Canonicalize is called on a fresh chord with *)
(* the same fields                                                         *)

\* err = ch.Validate() on the chord Canonicalize has rewritten
ValidateAgainCall ==
  /\ pc \in {"Canonicalize", "CanonicalizeAgain"}
  /\ err' = Validate(ch)
  /\ pc' = "ValidateAgain"
  /\ UNCHANGED <<given, ch, chB, reparsed, spelled, rendered, notesVars, parseVars>>

\* chB = Chord{Root, Triad, ExtraTones, Bass of ch}; chB.Canonicalize()
CanonicalizeFreshCall ==
  /\ pc \in {"Canonicalize", "CanonicalizeAgain"}
  /\ \E ord \in {"asc", "desc"} :
       chB' = Canonicalize(MkChord(ch.Root, ch.Triad, ch.ExtraTones, ch.Bass, FALSE), ord)
  /\ pc' = "CanonicalizeFresh"
  /\ UNCHANGED <<given, ch, err, reparsed, spelled, rendered, notesVars, parseVars>>

AgainNext == CanonicalizeCall \/ ValidateAgainCall \/ CanonicalizeFreshCall

SpecAgain == CanonInit /\ [][AgainNext]_vars

\* C24: for every chord on which Validate returns nil, Validate returns nil
\* again on the chord after Canonicalize
C24_ValidityPreserved ==
  pc = "ValidateAgain" => err = ""

\* Validate has accepted a chord that Canonicalize has changed
C24_RewrittenAndValid ==
  /\ pc = "ValidateAgain" /\ err = ""
  /\ (ch.Triad # given.Triad \/ ch.ExtraTones # given.ExtraTones)

\* C25: Canonicalize on a fresh chord with the Root, Triad, ExtraTones and
\* Bass of a canonicalized valid chord leaves Triad and ExtraTones equal to
\* those of the canonicalized chord
C25_CanonicalIsFixedPoint ==
  pc = "CanonicalizeFresh" =>
    chB.Triad = ch.Triad /\ chB.ExtraTones = ch.ExtraTones

\* Canonicalize has returned on the fresh copy of a chord the first call
\* changed, and has left it as it was
C25_FreshCopyKept ==
  /\ pc = "CanonicalizeFresh" /\ chB.canonical
  /\ chB.Triad = ch.Triad /\ chB.ExtraTones = ch.ExtraTones
  /\ ch.ExtraTones # given.ExtraTones

-----------------------------------------------------------------------------
(* SpecChord: Validate, Canonicalize, String and Spell on chords of at     *)
(* most MaxSpellTones extra tones on several roots                         *)

ChordInit ==
  /\ pc = "new"
  /\ \E rb \in RootsAndBasses, t \in TriadTypes,
        tns \in ToneSeqs(ExtraTonePool, MaxSpellTones) :
       ch = MkChord(rb[1], t, tns, rb[2], FALSE)
  /\ given = ch
  /\ NothingDone /\ NotesIdle /\ ParseIdle

ChordNext == ValidateCall \/ CanonicalizeCall \/ StringCall \/ SpellCall

SpecChord == ChordInit /\ [][ChordNext]_vars


\* C2: for every chord Validate accepts whose triad is not Sus, on any root,
\* Spell returns at least 3 notes, and when Bass is set the first note is
\* Bass and the rest are the notes derived from the root
C2_SpellAtLeastThree ==
  (pc \in {"Spell", "panic"} /\ given.Triad # Sus) =>
    /\ spelled # PanicNotes
    /\ Len(spelled) >= 3
    /\ ch.Bass.N # 0 =>
         /\ spelled[1] = ch.Bass
         /\ Tail(spelled) = Spell([ch EXCEPT !.Bass = ZeroNote])

\* Spell has returned the notes of a chord that is not Sus, the bass first
C2_SpelledWithBass ==
  /\ pc = "Spell" /\ given.Triad # Sus /\ ch.Bass.N # 0
  /\ spelled[1] = ch.Bass /\ Len(spelled) >= 4

-----------------------------------------------------------------------------
(* SpecValidate: Validate on every chord on C of at most MaxValidateTones  *)
(* extra tones, the tone values Validate rejects included                  *)

MaxValidateTones == 2

\* the tone values of ExtraVals and one value Validate rejects
ValidatePool == {MkTone(v, a) : v \in ExtraVals \cup {3}, a \in Accidentals}

ValidateInit ==
  /\ pc = "new"
  /\ \E t \in TriadTypes, tns \in ToneSeqs(ValidatePool, MaxValidateTones) :
       ch = MkChord(MkNote(C, Natural), t, tns, ZeroNote, FALSE)
  /\ given = ch
  /\ NothingDone /\ NotesIdle /\ ParseIdle

ValidateNext == ValidateCall

SpecValidate == ValidateInit /\ [][ValidateNext]_vars

\* chord c has a tone whose value is in vals and whose accidental is not acc
HasToneNot(c, vals, acc) ==
  \E i \in 1..Len(c.ExtraTones) :
    c.ExtraTones[i].Val \in vals /\ c.ExtraTones[i].Acc # acc

\* the four cases of a chord whose tones contradict its triad
ContradictsTriad(c) ==
  \/ c.Triad \in {Dim3, FDim} /\ HasToneNot(c, {7, 14}, Natural)
  \/ c.Triad \in {Dim3, HDim, FDim} /\ HasToneNot(c, {5, 12}, Flat)
  \/ c.Triad = Aug3 /\ HasToneNot(c, {5, 12}, Sharp)
  \/ c.Triad = Sus /\ \A i \in 1..Len(c.ExtraTones) :
                        c.ExtraTones[i].Val \notin {2, 4, 9, 11}

\* C11: Validate returns an error for every chord whose triad is Diminished
\* or FullyDiminished with a non-natural 7th tone, whose triad is Diminished,
\* HalfDiminished or FullyDiminished with a non-flat 5th tone, whose triad is
\* Augmented with a non-sharp 5th tone, or whose triad is Suspended with no
\* tone of value 2, 4, 9 or 11
C11_TriadChecks ==
  pc = "Validate" /\ ContradictsTriad(ch) => err # ""

\* Validate has returned the error of the triad checks for an augmented
\* chord with a natural 5th, which the loop over the tones accepts
C11_AugmentedNaturalFifth ==
  /\ pc = "Validate" /\ ch.Triad = Aug3
  /\ ch.ExtraTones = <<MkTone(5, Natural)>>
  /\ err = "augmented chord should not have non-sharp 5th"

\* chord c has two tones of the same degree modulo 7 with different
\* accidentals
ConflictingTones(c) ==
  \E i, j \in 1..Len(c.ExtraTones) :
    /\ c.ExtraTones[i].Val \in {2, 4, 5, 6, 7, 9, 11, 12, 13, 14}
    /\ c.ExtraTones[j].Val \in {2, 4, 5, 6, 7, 9, 11, 12, 13, 14}
    /\ c.ExtraTones[i].Val % 7 = c.ExtraTones[j].Val % 7
    /\ c.ExtraTones[i].Acc # c.ExtraTones[j].Acc

\* C12: every call of Validate leaves the chord (Root, Triad, ExtraTones,
\* Bass and the canonical flag) unchanged, and returns an error when two
\* tones of the same degree modulo 7 carry different accidentals, in
\* whichever order the tones are
C12_ConflictAndUnchanged ==
  [][pc' = "Validate" => (ch' = ch /\ (ConflictingTones(ch) => err' # ""))]_vars

\* Validate has returned the conflict error for a 9 followed by a 2 of
\* another accidental
C12_ConflictHigherFirst ==
  /\ pc = "Validate"
  /\ ch.ExtraTones = <<MkTone(9, Sharp), MkTone(2, Flat)>>
  /\ err = "tone has conflicting accidentals"

-----------------------------------------------------------------------------
(* SpecEquiv: Canonicalize on two chords of the same root and bass that    *)
(* Validate has accepted                                                   *)

ValidChords(n) ==
  {c \in {MkChord(MkNote(C, Natural), t, tns, ZeroNote, FALSE) :
            t \in TriadTypes, tns \in ToneSeqs(ExtraTonePool, n)} :
     Validate(c) = ""}

EquivInit ==
  /\ pc = "Validate" /\ err = ""
  /\ ch \in ValidChords(MaxPairTones) /\ chB \in ValidChords(MaxPairTones)
  /\ given = ch
  /\ reparsed = NotParsed /\ spelled = <<>> /\ rendered = <<>>
  /\ NotesIdle /\ ParseIdle

EquivNext == CanonicalizeCall \/ CanonicalizeOther

SpecEquiv == EquivInit /\ [][EquivNext]_vars


\* the pitch classes of the notes Spell returned (none when it panicked)
PitchClasses(notes) ==
  IF notes = PanicNotes THEN {}
  ELSE {NoteCardinal(notes[i]) : i \in 1..Len(notes)}

\* C8: two chords Validate accepts, of the same root and bass, whose
\* canonical forms spell the same set of pitch classes, have the same Triad
\* and the same ExtraTones once both are canonical
C8_UniqueRepresentative ==
  ( /\ ch.canonical /\ chB.canonical
    /\ ch.Root = chB.Root /\ ch.Bass = chB.Bass
    /\ PitchClasses(Spell(ch)) = PitchClasses(Spell(chB)) ) =>
    (ch.Triad = chB.Triad /\ ch.ExtraTones = chB.ExtraTones)

\* two chords given differently have become the same canonical chord
C8_Collapsed ==
  /\ ch.canonical /\ chB.canonical /\ ch = chB
  /\ given.ExtraTones # ch.ExtraTones

\* C27 (SpecChord): for every chord Validate accepts, the set of pitch
\* cardinals of the notes Spell returns for the canonical chord is the set
\* of the notes Spell returns for the chord as given
C27_SoundKept ==
  (pc = "Spell" /\ ch.canonical) =>
    PitchClasses(spelled) = PitchClasses(Spell(given))

\* Spell has returned, for a chord Canonicalize rewrote, notes of the pitch
\* classes of the chord as given
C27_RewrittenSoundsSame ==
  /\ pc = "Spell" /\ ch.canonical
  /\ (ch.Triad # given.Triad \/ ch.ExtraTones # given.ExtraTones)
  /\ PitchClasses(spelled) = PitchClasses(Spell(given))

-----------------------------------------------------------------------------
(* SpecPerm: Canonicalize on two chords Validate accepts that differ only  *)
(* in the order of their extra tones                                       *)

MaxPermTones == 2

\* the tones of the chords permuted
PermTonePool == {MkTone(v, a) : v \in {2, 4, 7, 9, 11}, a \in Accidentals}

Reversed(s) == [i \in 1..Len(s) |-> s[Len(s) + 1 - i]]

Rotated(s) == IF s = <<>> THEN s ELSE Tail(s) \o <<Head(s)>>

\* the second chord has the tones of the first reversed or rotated by one:
\* the two generate every permutation
PermInit ==
  /\ pc = "Validate"
  /\ \E t \in TriadTypes, tns \in ToneSeqs(PermTonePool, MaxPermTones) :
       /\ ch = MkChord(MkNote(C, Natural), t, tns, ZeroNote, FALSE)
       /\ Validate(ch) = ""
       /\ \E perm \in {Reversed(tns), Rotated(tns)} :
            chB = MkChord(MkNote(C, Natural), t, perm, ZeroNote, FALSE)
  /\ given = ch
  /\ err = "" /\ reparsed = NotParsed /\ spelled = <<>> /\ rendered = <<>>
  /\ NotesIdle /\ ParseIdle

PermNext == CanonicalizeCall \/ CanonicalizeOther

SpecPerm == PermInit /\ [][PermNext]_vars

\* C26: two chords of equal Root, Triad and Bass whose ExtraTones are
\* permutations of each other have, once both are canonical, the same Triad
\* and the same ExtraTones sequence
C26_OrderInsensitive ==
  (ch.canonical /\ chB.canonical) =>
    ch.Triad = chB.Triad /\ ch.ExtraTones = chB.ExtraTones

\* both chords are canonical and equal, the first was given two different
\* tones the second had in the other order, and Canonicalize kept two tones
C26_SwappedTonesAgree ==
  /\ ch.canonical /\ chB.canonical
  /\ Len(given.ExtraTones) = 2 /\ given.ExtraTones[1] # given.ExtraTones[2]
  /\ ch.Triad = chB.Triad /\ ch.ExtraTones = chB.ExtraTones
  /\ Len(ch.ExtraTones) >= 2

-----------------------------------------------------------------------------
(* SpecParse: the command's pipeline on every text of at most MaxLen runes *)
(* over Runes, and ParseChord on the text String returns                   *)

MaxLen == 5

\* B C b n # 2 7 9
Runes == {66, 67, 98, 110, 35, 50, 55, 57}

Texts == UNION {[1..k -> Runes] : k \in 0..MaxLen}

ParseInit ==
  /\ pc = "text"
  /\ input \in Texts /\ form = NoForm /\ LexIdle
  /\ res = <<>> /\ given = ZeroChord /\ ch = ZeroChord
  /\ NothingDone /\ NotesIdle

ParseNext ==
  \/ ParseChordCall \/ ValidateCall \/ CanonicalizeCall \/ StringCall
  \/ SpellCall \/ ReparseCall

SpecParse == ParseInit /\ [][ParseNext]_vars

\* the text Bb7#9
Bb7Sharp9 == <<66, 98, 55, 35, 57>>

\* the tones of a chord, as a set
ToneSet(c) == {c.ExtraTones[i] : i \in 1..Len(c.ExtraTones)}

\* C3: ParseChord("Bb7#9") succeeds with root B flat, triad Maj3 and the
\* extra tones {7 natural, 9 sharp}, and Spell on that chord returns the
\* notes Bb, D, F, Ab, C# in that order
C3_ParseAndSpellBb7Sharp9 ==
  (input = Bb7Sharp9 /\ pc # "text") =>
    /\ err = "" /\ res # <<>>
    /\ given.Root = MkNote(B, Flat) /\ given.Triad = Maj3
    /\ Len(given.ExtraTones) = 2
    /\ ToneSet(given) = {MkTone(7, Natural), MkTone(9, Sharp)}
    /\ pc \in {"Spell", "panic"} =>
         spelled = << MkNote(B, Flat), MkNote(D, Natural), MkNote(F, Natural),
                      MkNote(A, Flat), MkNote(C, Sharp) >>

\* Spell was called on the chord parsed from Bb7#9
C3_SpellCalled == input = Bb7Sharp9 /\ pc \in {"Spell", "panic"}

\* C6: the text String returns for the canonical chord of an accepted text
\* is accepted by ParseChord again, and the chord parsed from it (made
\* canonical, as the chord rendered is) has the same root and spells the
\* same pitch classes as the chord rendered
C6_RoundTrip ==
  (pc = "Reparse" /\ ch.canonical) =>
    /\ reparsed.err = "" /\ reparsed.res # <<>>
    /\ reparsed.res[1].Root = ch.Root
    /\ \A ord \in {"asc", "desc"} :
         PitchClasses(Spell(Canonicalize(reparsed.res[1], ord)))
           = PitchClasses(Spell(ch))

\* a canonical chord was rendered and parsed again as the same chord
C6_Reparsed ==
  /\ pc = "Reparse" /\ ch.canonical /\ reparsed.err = ""
  /\ reparsed.res # <<>> /\ reparsed.res[1].Root = ch.Root

\* C13: for every text on which ParseChord returns a non-nil error, the
\* chord pointer it returns is nil
C13_NoPartialResult ==
  pc = "ParseChord" /\ err # "" => res = <<>>

\* ParseChord has returned an error and no chord
C13_ErrorAndNil ==
  pc = "ParseChord" /\ err # "" /\ res = <<>>

-----------------------------------------------------------------------------
(* SpecTexts: ParseChord on every text of at most MaxTextLen runes over    *)
(* TextRunes, which has runes no chord is written with                     *)

MaxTextLen == 4

\* C H b 7 / and U+E002, a private-use rune
TextRunes == {67, 72, 98, 55, 47, 57346}

TextsInit ==
  /\ pc = "text"
  /\ input \in UNION {[1..k -> TextRunes] : k \in 0..MaxTextLen}
  /\ form = NoForm /\ LexIdle
  /\ res = <<>> /\ given = ZeroChord /\ ch = ZeroChord
  /\ NothingDone /\ NotesIdle

TextsNext == ParseChordCall

SpecTexts == TextsInit /\ [][TextsNext]_vars

\* C29: ParseChord never returns a nil chord with a nil error: for every
\* text either the error is non-nil, or the chord is non-nil and has a valid
\* root and a valid triad
C29_ChordOrError ==
  (pc = "ParseChord" /\ err = "") =>
    /\ res # <<>>
    /\ NoteIsValid(res[1].Root) /\ TriadIsValid(res[1].Triad)

\* ParseChord has returned a chord with a valid root and no error
C29_ChordReturned ==
  /\ pc = "ParseChord" /\ err = "" /\ res # <<>>
  /\ NoteIsValid(res[1].Root) /\ TriadIsValid(res[1].Triad)
  /\ Len(input) = MaxTextLen

-----------------------------------------------------------------------------
(* SpecLex: Lex called again and again on one chordLex, until it returns   *)
(* the end token, on every text of at most MaxLexLen runes over LexRunes   *)

MaxLexLen == 3

\* the runes of the keywords sus aug maj min dim bb 11 13, a space and C
LexRunes == {115, 117, 97, 103, 109, 106, 105, 110, 100, 98, 49, 51, 32, 67}

LexInit ==
  /\ pc = "text"
  /\ input \in UNION {[1..k -> LexRunes] : k \in 0..MaxLexLen}
  /\ lexPos = 0 /\ lexTok = -1
  /\ form = NoForm /\ res = <<>>
  /\ NotesIdle /\ ChordIdle

\* lexTok = l.Lex(&lval), l.pos moved by next and skip
LexCall ==
  /\ lexTok # 0
  /\ LET lx == Lex(input, lexPos, ZeroSym)
     IN lexTok' = lx.char /\ lexPos' = lx.pos
  /\ pc' = "Lex"
  /\ UNCHANGED <<form, input, res, notesVars, chordVars>>

LexNext == LexCall

SpecLex == LexInit /\ [][LexNext]_vars /\ WF_vars(LexCall)

\* C30: every call of Lex returns the end token 0 or moves pos forward by
\* at least one rune, pos never exceeds len(input), and so the end token is
\* returned in the end
C30_LexProgress ==
  /\ [][LexCall => /\ (lexTok' = 0 \/ lexPos' >= lexPos + 1)
                   /\ lexPos' <= Len(input)]_vars
  /\ [](lexPos <= Len(input))
  /\ <>(lexTok = 0)

\* Lex has returned the end token after a keyword of three runes that ends
\* the text
C30_KeywordAtEnd ==
  /\ lexTok = 0 /\ lexPos = Len(input) /\ Len(input) = 3
  /\ input[1] \in {115, 97, 109, 100} /\ Lex(input, 0, ZeroSym).pos = 3
  /\ Lex(input, 0, ZeroSym).char >= chordPrivate

-----------------------------------------------------------------------------
(* SpecForms: ParseChord and Validate on the texts written as a root, a    *)
(* major-seventh marker or a suspension, and at most MaxFormTones tones    *)

MaxFormTones == 2

\* C, Bb
FormRoots ==
  { [text |-> <<67>>, note |-> MkNote(C, Natural)],
    [text |-> <<66, 98>>, note |-> MkNote(B, Flat)] }

MkHead(text, kind, tone) == [text |-> text, kind |-> kind, tone |-> tone]

\* maj, △, ∆
Maj7Heads ==
  { MkHead(<<109, 97, 106>>, "maj7", MkTone(0, Natural)),
    MkHead(<<RuneTriangle>>, "maj7", MkTone(0, Natural)),
    MkHead(<<RuneDelta>>, "maj7", MkTone(0, Natural)) }

\* sus
SusText == <<115, 117, 115>>

\* sus, sus2, sus#2, susb2, sus4, sus#4, susb4; the head "sus" alone has no
\* written suspension tone
SusHeads ==
  { MkHead(SusText, "sus", MkTone(0, Natural)) } \cup
  { MkHead(SusText \o <<48 + v>>, "sus", MkTone(v, Natural)) : v \in {2, 4} } \cup
  { MkHead(SusText \o <<35, 48 + v>>, "sus", MkTone(v, Sharp)) : v \in {2, 4} } \cup
  { MkHead(SusText \o <<98, 48 + v>>, "sus", MkTone(v, Flat)) : v \in {2, 4} }

MkFormTone(text, tone) == [text |-> text, tone |-> tone]

\* 2 4 6 9 11 #9 #11 b13 +5 -9
FormTones ==
  { MkFormTone(<<48 + v>>, MkTone(v, Natural)) : v \in {2, 4, 6, 9} } \cup
  { MkFormTone(<<49, 49>>, MkTone(11, Natural)),
    MkFormTone(<<35, 57>>, MkTone(9, Sharp)),
    MkFormTone(<<35, 49, 49>>, MkTone(11, Sharp)),
    MkFormTone(<<98, 49, 51>>, MkTone(13, Flat)),
    MkFormTone(<<43, 53>>, MkTone(5, Sharp)),
    MkFormTone(<<45, 57>>, MkTone(9, Flat)) }

RECURSIVE ToneTexts(_)
ToneTexts(tns) ==
  IF tns = <<>> THEN <<>> ELSE Head(tns).text \o ToneTexts(Tail(tns))

\* the text of a form
FormText(f) == f.root.text \o f.head.text \o ToneTexts(f.tones)

\* the tones listed in a form, in the order written
Listed(f) == [i \in 1..Len(f.tones) |-> f.tones[i].tone]

\* the head "sus" alone directly followed by a 2 or a 4 is the text of
\* another form
ReadsAsOtherForm(f) ==
  /\ f.head.text = SusText /\ f.tones # <<>>
  /\ f.tones[1].text \in {<<50>>, <<52>>}

FormsInit ==
  /\ pc = "text"
  /\ \E r \in FormRoots, h \in Maj7Heads \cup SusHeads,
        tns \in ToneSeqs(FormTones, MaxFormTones) :
       /\ form = [root |-> r, head |-> h, tones |-> tns]
       /\ ~ReadsAsOtherForm(form)
  /\ input = FormText(form) /\ LexIdle
  /\ res = <<>> /\ given = ZeroChord /\ ch = ZeroChord
  /\ NothingDone /\ NotesIdle

FormsNext == ParseChordCall \/ ValidateCall

SpecForms == FormsInit /\ [][FormsNext]_vars

\* C14: for a text made of a root, a major-seventh marker (maj, △ or ∆) and
\* a list of extra tones, without a triad marker or a literal 7, ParseChord
\* returns a Maj3 chord on that root whose ExtraTones are the listed tones,
\* followed by a sharp 7 exactly when a listed tone has a value above 7
C14_MajorSeventhMarker ==
  pc = "ParseChord" /\ form.head.kind = "maj7" =>
    /\ err = ""
    /\ res = << MkChord(form.root.note, Maj3,
                  Listed(form) \o
                    (IF \E i \in 1..Len(form.tones) : form.tones[i].tone.Val > 7
                     THEN <<MkTone(7, Sharp)>> ELSE <<>>),
                  ZeroNote, FALSE) >>

\* ParseChord has returned for a marker followed by a low tone and a high
\* tone, and the sharp 7 is there
C14_SharpSeventhAdded ==
  /\ pc = "ParseChord" /\ form.head.kind = "maj7"
  /\ Listed(form) = <<MkTone(6, Natural), MkTone(9, Natural)>>
  /\ res # <<>> /\ res[1].ExtraTones[3] = MkTone(7, Sharp)

\* the suspension tone of a head: the one written, or 2 when none is
SuspensionTone(h) == IF h.tone.Val = 0 THEN MkTone(2, Natural) ELSE h.tone

\* C15 as stated: ParseChord accepts sus, sus2, sus ACCIDENTAL 2, sus4 and
\* sus ACCIDENTAL 4 after a root, and each yields a Sus chord with the
\* suspension tone appended to ExtraTones
C15_SuspensionAsStated ==
  pc = "ParseChord" /\ form.head.kind = "sus" =>
    /\ err = ""
    /\ res = << MkChord(form.root.note, Sus,
                  Listed(form) \o <<SuspensionTone(form.head)>>, ZeroNote, FALSE) >>

\* C15: ParseChord accepts sus2, sus ACCIDENTAL 2, sus4 and sus ACCIDENTAL 4
\* after a root, each yielding a Sus chord with the written suspension tone
\* appended to ExtraTones, and returns a syntax error for sus without a 2 or
\* a 4
C15_SuspensionWritten ==
  pc = "ParseChord" /\ form.head.kind = "sus" =>
    IF form.head.tone.Val = 0 THEN err = "syntax error"
    ELSE /\ err = ""
         /\ res = << MkChord(form.root.note, Sus,
                       Listed(form) \o <<form.head.tone>>, ZeroNote, FALSE) >>

\* ParseChord has returned a Sus chord for sus with a flat 4 followed by a
\* tone
C15_SusFlatFour ==
  /\ pc = "ParseChord" /\ form.head.text = SusText \o <<98, 52>>
  /\ Listed(form) = <<MkTone(9, Natural)>>
  /\ res # <<>> /\ res[1].Triad = Sus
  /\ res[1].ExtraTones = <<MkTone(9, Natural), MkTone(4, Flat)>>

====
